---- MODULE Spec2Model ----
(***************************************************************************)
(* A model of the symbolicator request service                             *)
(* (crates/symbolicator/src/service.rs): admission control, the spawned    *)
(* worker future, the shared one-shot completion channel and the pollers.  *)
(***************************************************************************)
EXTENDS Naturals, FiniteSets

(***************************************************************************)
(* Bounds of the model.                                                    *)
(***************************************************************************)
\* Number of request ids (UUIDs) handed out in one run of the admission model.
MaxRequests == 2
\* Number of request ids handed out in one run of the polling model.
MaxPolled == 1
\* Largest configured value of max_concurrent_requests.
MaxLimit == 1
\* Seconds by which the 1-hour job timer is observed to advance in one step.
JobTick == 1800
\* Seconds by which the retention sleep is observed to advance in one step.
SleepTick == 45
\* The non-zero timeout (seconds) a poller may pass to get_response.
PollTimeout == 30

\* Threads calling create_symbolication_request concurrently (admission model),
\* the one submitting thread of the polling model, and the callers of
\* get_response.
Threads == {"t1", "t2"}
PollThreads == {"t1"}
Pollers == {"p1", "p2"}

RequestIds == 1..MaxRequests
PolledIds == 1..MaxPolled
\* A request id the service never handed out.
UnknownId == 0

(***************************************************************************)
(* Program constants.                                                      *)
(***************************************************************************)
\* const MAX_POLL_DELAY: Duration = Duration::from_secs(90)
MAX_POLL_DELAY == 90
\* tokio::time::timeout(Duration::from_secs(3600), f)
JOB_TIMEOUT == 3600
\* retry_after: 30
RETRY_AFTER == 30

(***************************************************************************)
(* Option<T>.                                                              *)
(***************************************************************************)
None == [some |-> FALSE]
Some(x) == [some |-> TRUE, val |-> x]

Min(a, b) == IF a < b THEN a ELSE b

(***************************************************************************)
(* enum SymbolicationResponse.                                             *)
(***************************************************************************)
Pending(request_id, retry_after) ==
    [status |-> "pending", request_id |-> request_id, retry_after |-> retry_after]
Completed(payload) == [status |-> "completed", payload |-> payload]
Failed(message) == [status |-> "failed", message |-> message]
Timeout == [status |-> "timeout"]
InternalError == [status |-> "internal_error"]

(***************************************************************************)
(* The values a user future can produce.  A CompletedSymbolicationResponse *)
(* is opaque here (it is the response after the optional clearing of its   *)
(* DIF candidates); an anyhow::Error is its message.                       *)
(***************************************************************************)
Payloads == {"symbolicated stacktraces"}
ErrorMessages == {"failed to process minidump"}

\* enum SymbolicationError
ErrTimeout == [variant |-> "Timeout"]
ErrFailed(source) == [variant |-> "Failed", source |-> source]

\* #[derive(Error)] Display of SymbolicationError: Timeout has its own text,
\* Failed is transparent (the text of the wrapped anyhow::Error).
ErrorToString(error) ==
    IF error.variant = "Timeout" THEN "symbolication took too long" ELSE error.source

\* A slip: every error, the timeout too, becomes Failed with its message.
ResponseFromErrorAllFailed(error) == Failed(ErrorToString(error))

\* impl From<&SymbolicationError> for SymbolicationResponse
ResponseFromError(error) ==
    IF error.variant = "Timeout" THEN Timeout ELSE Failed(ErrorToString(error))

\* Result<CompletedSymbolicationResponse, SymbolicationError>
ResOk(payload) == [ok |-> TRUE, payload |-> payload]
ResErr(error) == [ok |-> FALSE, error |-> error]

\* What tokio::time::timeout(3600 s, f) resolved to (Unset: not yet).
Unset == [kind |-> "unset"]
JobOk(payload) == [kind |-> "ok", payload |-> payload]
JobErr(message) == [kind |-> "err", message |-> message]
JobElapsed == [kind |-> "elapsed"]

\* The flattening of Result<Result<_, anyhow::Error>, Elapsed>:
\* .map(|inner| inner.map_err(SymbolicationError::from))
\* .unwrap_or(Err(SymbolicationError::Timeout))
Flatten(outcome) ==
    CASE outcome.kind = "elapsed" -> ResErr(ErrTimeout)
      [] outcome.kind = "ok" -> ResOk(outcome.payload)
      [] outcome.kind = "err" -> ResErr(ErrFailed(outcome.message))

\* let response = match result { Ok(..) => Completed, Err(error) => From(&error) }
ResponseOf(result) ==
    IF result.ok THEN Completed(result.payload) ELSE ResponseFromError(result.error)

(***************************************************************************)
(* The one-shot channel of a request, as its shared receiver sees it.      *)
(***************************************************************************)
ChanEmpty == [state |-> "empty"]
ChanValue(response) == [state |-> "value", response |-> response]
ChanCanceled == [state |-> "canceled"]

(***************************************************************************)
(* State.                                                                  *)
(***************************************************************************)
VARIABLES
    max_concurrent_requests, \* RequestServiceInner.max_concurrent_requests
    current_requests,        \* RequestServiceInner.current_requests
    requests,                \* keys of RequestServiceInner.requests
    channel,                 \* the channel created for each request id
    next_id,                 \* the next fresh request id
    thread,                  \* each thread's position in create_symbolication_request
    worker,                  \* each spawned request_future
    poller,                  \* each caller's position in get_response
    cache,                   \* a caching::fs::Cache (cache_dir, start_time, cache_config)
    clock,                   \* SystemTime::now(), in seconds
    file,                    \* the cache file at the path the calls are made with
    opened,                  \* the last check_expiry / open_cachefile call and its result
    client,                  \* what create_client was called with and what it built
    connection,              \* the last connection attempt of the client
    emitted,                 \* the last to_maxing_i64 call and its result
    readers,                 \* concurrent open_cachefile calls on the file, and its bumps
    store                    \* the directories, the Cache from_config built, its tempfile call

vars == <<max_concurrent_requests, current_requests, requests, channel, next_id,
          thread, worker, poller, cache, clock, file, opened, client, connection,
          emitted, readers, store>>

\* The state of the request service, and the state of the other components (the
\* file-system cache, the HTTP client, the task metrics).
service_vars == <<max_concurrent_requests, current_requests, requests, channel,
                  next_id, thread, worker, poller>>
component_vars == <<cache, clock, file, opened, client, connection, emitted,
                    readers, store>>

\* Result<RequestId, MaxRequestsError> of the last call of a thread.
NoRet == [kind |-> "none"]
RetOk(request_id) == [kind |-> "ok", request_id |-> request_id]
MaxRequestsError == [kind |-> "err"]

IdleThread == [pc |-> "idle", request_id |-> UnknownId, ret |-> NoRet]

\* A request_future: where it is, its running timer, whether it still holds the
\* sender and the CallOnDrop token, what the 1-hour timeout around the user
\* future resolved to, and the status of the sentry session of its hub.
NoWorker == [pc |-> "none", timer |-> 0, sender |-> "held", token |-> "held",
             outcome |-> Unset, session |-> "Active"]

\* Option<SymbolicationResponse> of the last get_response call of a poller.
NoCall == [kind |-> "nocall"]
Abandoned == [kind |-> "abandoned"]
Returned(opt) == [kind |-> "returned", opt |-> opt]

\* A get_response call: where it is, its arguments, its timer, whether the
\* response was on the channel when it looked the id up, and what it returned.
IdlePoller == [pc |-> "idle", request_id |-> UnknownId, timeout |-> None,
               timer |-> 0, sent_at_start |-> FALSE, res |-> NoCall]

(***************************************************************************)
(* The file-system cache (caching/fs.rs): its values.                      *)
(***************************************************************************)
\* CacheEntry<T> = Result<T, CacheError>.  The contents of an Ok entry and the
\* details of an error are opaque.
EntryOk == [ok |-> TRUE]
EntryErr(error) == [ok |-> FALSE, error |-> error]

\* The variants of CacheError: the two expiration_strategy names, and the ones
\* its wildcard arm stands for.
NamedCacheErrors == {"NotFound", "Malformed"}
OtherCacheErrors == {"Timeout", "DownloadError", "PermissionDenied", "InternalError"}
CacheErrors == NamedCacheErrors \cup OtherCacheErrors
CacheEntries == {EntryOk} \cup {EntryErr(e) : e \in CacheErrors}

\* enum CacheConfig { Downloaded(_), Derived(_), Diagnostics(_) } and the three
\* durations its accessors return (each an Option<Duration>, in seconds).
ConfigKinds == {"Downloaded", "Derived", "Diagnostics"}
CacheConfig(kind, max_unused_for, retry_misses_after, retry_malformed_after) ==
    [kind |-> kind, max_unused_for |-> max_unused_for,
     retry_misses_after |-> retry_misses_after,
     retry_malformed_after |-> retry_malformed_after]

\* enum ExpirationTime
RefreshIn(duration) == [variant |-> "RefreshIn", duration |-> duration]
TouchIn(duration) == [variant |-> "TouchIn", duration |-> duration]

\* A file of the cache directory: whether it is there, the entry its bytes
\* decode to, its mtime.
NoFile == [exists |-> FALSE, entry |-> EntryOk, mtime |-> 0]

\* No call made yet.
NotOpened == [call |-> "none"]

\* A Cache before it is configured: disabled, with nothing set.
UnsetCache ==
    [cache_dir |-> None, start_time |-> 0,
     cache_config |-> CacheConfig("Downloaded", None, None, None)]

(***************************************************************************)
(* The HTTP client (utils/http.rs) and the task metrics: their values.     *)
(***************************************************************************)
NoClient == [built |-> FALSE]
NoConnection == [tried |-> FALSE]
NotEmitted == [called |-> FALSE]
NoReaders == [used |-> FALSE]
NoStore == [used |-> FALSE]

\* The other components before anything is built or called.
ComponentsUnset ==
    /\ cache = UnsetCache
    /\ clock = 0
    /\ file = NoFile
    /\ opened = NotOpened
    /\ client = NoClient
    /\ connection = NoConnection
    /\ emitted = NotEmitted
    /\ readers = NoReaders
    /\ store = NoStore

\* RequestService::create, for every configuration of max_concurrent_requests.
Init ==
    /\ max_concurrent_requests \in {None} \cup {Some(n) : n \in 1..MaxLimit}
    /\ current_requests = 0
    /\ requests = {}
    /\ channel = [id \in RequestIds |-> ChanEmpty]
    /\ next_id = 1
    /\ thread = [t \in Threads |-> IdleThread]
    /\ worker = [id \in RequestIds |-> NoWorker]
    /\ poller = [p \in Pollers |-> IdlePoller]
    /\ ComponentsUnset

(***************************************************************************)
(* create_symbolication_request, one step per access to shared state.      *)
(***************************************************************************)
\* A slip: > in place of >=.
RejectedOffByOne(num_requests, max) == max.some /\ num_requests > max.val

\* if let Some(max) = max_concurrent_requests { if num_requests >= max { reject } }
Rejected(num_requests, max) == max.some /\ num_requests >= max.val

\* Lines 365-371: the call starts (the channel and the hub are created).
CreateBegin(t) ==
    /\ thread[t].pc = "idle"
    /\ thread' = [thread EXCEPT ![t] = [IdleThread EXCEPT !.pc = "check"]]
    /\ UNCHANGED <<max_concurrent_requests, current_requests, requests, channel,
                   next_id, worker, poller>>
    /\ UNCHANGED component_vars

\* A slip: the counter is incremented before the limit is looked at.
CreateCheckCountsFirst(t, ids) ==
    /\ thread[t].pc = "check"
    /\ LET num_requests == current_requests IN
       IF Rejected(num_requests, max_concurrent_requests)
       THEN /\ thread' = [thread EXCEPT ![t] =
                            [IdleThread EXCEPT !.ret = MaxRequestsError]]
            /\ UNCHANGED next_id
       ELSE /\ next_id \in ids
            /\ thread' = [thread EXCEPT ![t] =
                            [pc |-> "insert", request_id |-> next_id, ret |-> NoRet]]
            /\ next_id' = next_id + 1
    /\ current_requests' = current_requests + 1
    /\ UNCHANGED <<max_concurrent_requests, requests, channel, worker, poller>>
    /\ UNCHANGED component_vars

\* Lines 373-384: load the counter, reject or pick a fresh request id (ids is
\* the supply of ids of the run).
CreateCheck(t, ids) ==
    /\ thread[t].pc = "check"
    /\ LET num_requests == current_requests IN
       IF Rejected(num_requests, max_concurrent_requests)
       THEN /\ thread' = [thread EXCEPT ![t] =
                            [IdleThread EXCEPT !.ret = MaxRequestsError]]
            /\ UNCHANGED next_id
       ELSE /\ next_id \in ids
            /\ thread' = [thread EXCEPT ![t] =
                            [pc |-> "insert", request_id |-> next_id, ret |-> NoRet]]
            /\ next_id' = next_id + 1
    /\ UNCHANGED <<max_concurrent_requests, current_requests, requests, channel,
                   worker, poller>>
    /\ UNCHANGED component_vars

\* requests.lock().unwrap().insert(request_id, receiver.shared())
CreateInsert(t) ==
    /\ thread[t].pc = "insert"
    /\ requests' = requests \cup {thread[t].request_id}
    /\ thread' = [thread EXCEPT ![t].pc = "fetch_add"]
    /\ UNCHANGED <<max_concurrent_requests, current_requests, channel, next_id,
                   worker, poller>>
    /\ UNCHANGED component_vars

\* A slip: the call goes on without the increment.
CreateFetchAddSkipped(t) ==
    /\ thread[t].pc = "fetch_add"
    /\ thread' = [thread EXCEPT ![t].pc = "spawn"]
    /\ UNCHANGED <<max_concurrent_requests, current_requests, requests, channel,
                   next_id, worker, poller>>
    /\ UNCHANGED component_vars

\* current_requests.fetch_add(1, Ordering::Relaxed)
CreateFetchAdd(t) ==
    /\ thread[t].pc = "fetch_add"
    /\ current_requests' = current_requests + 1
    /\ thread' = [thread EXCEPT ![t].pc = "spawn"]
    /\ UNCHANGED <<max_concurrent_requests, requests, channel, next_id, worker, poller>>
    /\ UNCHANGED component_vars

\* Lines 390-453: build the drop guard and the future, spawn it, return the id.
CreateSpawn(t) ==
    /\ thread[t].pc = "spawn"
    /\ worker' = [worker EXCEPT ![thread[t].request_id] =
                    [NoWorker EXCEPT !.pc = "spawned"]]
    /\ thread' = [thread EXCEPT ![t] =
                    [IdleThread EXCEPT !.ret = RetOk(thread[t].request_id)]]
    /\ UNCHANGED <<max_concurrent_requests, current_requests, requests, channel,
                   next_id, poller>>
    /\ UNCHANGED component_vars

(***************************************************************************)
(* The spawned request_future.                                             *)
(***************************************************************************)
\* First poll: the 1-hour timeout around the user future starts.
FirstPoll(id) ==
    /\ worker[id].pc = "spawned"
    /\ worker' = [worker EXCEPT ![id].pc = "running", ![id].timer = 0]
    /\ UNCHANGED <<max_concurrent_requests, current_requests, requests, channel,
                   next_id, thread, poller>>
    /\ UNCHANGED component_vars

\* Time passes for the job.  Timers are observed one at a time: no operation of
\* the service compares two timers.
TickJob(id) ==
    /\ worker[id].pc = "running"
    /\ worker[id].timer < JOB_TIMEOUT
    /\ worker' = [worker EXCEPT ![id].timer = Min(@ + JobTick, JOB_TIMEOUT)]
    /\ UNCHANGED <<max_concurrent_requests, current_requests, requests, channel,
                   next_id, thread, poller>>
    /\ UNCHANGED component_vars

\* The user future returns Ok or an error, whenever it likes (tokio's timeout
\* polls it first, so its output wins whenever it is ready).
UserOutcomes == {JobOk(p) : p \in Payloads} \cup {JobErr(m) : m \in ErrorMessages}

\* A slip: a later status replaces the one the session ended with.
end_session_again(session, status) == status

\* end_session_with_status: ending a session consumes it, a second end does
\* nothing (lines 393-394).
end_session_with_status(session, status) ==
    IF session = "Active" THEN status ELSE session

\* Lines 417 and 421-426: Exited for a response, Abnormal for a timeout, Crashed
\* for every other error.
SessionStatusOf(result) ==
    IF result.ok THEN "Exited"
    ELSE IF result.error.variant = "Timeout" THEN "Abnormal" ELSE "Crashed"

\* Lines 407-435: the timeout resolved, the session is ended, the response is
\* built and sent; the sender is consumed.
Send(id, outcome) ==
    LET result == Flatten(outcome) IN
    /\ channel' = [channel EXCEPT ![id] = ChanValue(ResponseOf(result))]
    /\ worker' = [worker EXCEPT ![id].pc = "sent", ![id].timer = 0,
                                ![id].sender = "used", ![id].outcome = outcome,
                                ![id].session =
                                    end_session_with_status(@, SessionStatusOf(result))]
    /\ UNCHANGED <<max_concurrent_requests, current_requests, requests, next_id,
                   thread, poller>>
    /\ UNCHANGED component_vars

\* The user future resolves.
JobReturns(id, outcome) ==
    /\ worker[id].pc = "running"
    /\ outcome \in UserOutcomes
    /\ Send(id, outcome)

\* A slip: no limit around the user future, which is waited for on and on.
JobOutlivesLimit(id) ==
    /\ worker[id].pc = "running"
    /\ worker[id].timer >= JOB_TIMEOUT
    /\ UNCHANGED vars

\* The user future is not ready and the 3600 s deadline has passed.
JobTimesOut(id) ==
    /\ worker[id].pc = "running"
    /\ worker[id].timer >= JOB_TIMEOUT
    /\ Send(id, JobElapsed)

\* A slip: the sleep starts without the decrement.
FetchSubSkipped(id) ==
    /\ worker[id].pc = "sent"
    /\ worker' = [worker EXCEPT ![id].pc = "sleeping", ![id].timer = 0]
    /\ UNCHANGED <<max_concurrent_requests, current_requests, requests, channel,
                   next_id, thread, poller>>
    /\ UNCHANGED component_vars

\* current_requests.fetch_sub(1, Ordering::Relaxed), then the sleep starts.
FetchSub(id) ==
    /\ worker[id].pc = "sent"
    /\ current_requests' = current_requests - 1
    /\ worker' = [worker EXCEPT ![id].pc = "sleeping", ![id].timer = 0]
    /\ UNCHANGED <<max_concurrent_requests, requests, channel, next_id, thread, poller>>
    /\ UNCHANGED component_vars

\* Time passes for the retention sleep.
TickSleep(id) ==
    /\ worker[id].pc = "sleeping"
    /\ worker[id].timer < MAX_POLL_DELAY
    /\ worker' = [worker EXCEPT ![id].timer = Min(@ + SleepTick, MAX_POLL_DELAY)]
    /\ UNCHANGED <<max_concurrent_requests, current_requests, requests, channel,
                   next_id, thread, poller>>
    /\ UNCHANGED component_vars

\* A slip: the closure leaves the map alone.
TokenCallKeeps(id, map) == map

\* The closure of the CallOnDrop token: requests.lock().unwrap().remove(&request_id)
TokenCall(id, map) == map \ {id}

\* ... and drop_hub.end_session_with_status(SessionStatus::Crashed)
TokenSession(session) == end_session_with_status(session, "Crashed")

\* A slip: the token is dropped without waiting for the sleep.
WakeEarly(id) ==
    /\ worker[id].pc = "sleeping"
    /\ requests' = requests \ {id}
    /\ worker' = [worker EXCEPT ![id].pc = "done", ![id].timer = 0,
                                ![id].token = "dropped",
                                ![id].session = TokenSession(@)]
    /\ UNCHANGED <<max_concurrent_requests, current_requests, channel, next_id,
                   thread, poller>>
    /\ UNCHANGED component_vars

\* tokio::time::sleep(MAX_POLL_DELAY) is over: drop(token), the future ends.
Wake(id) ==
    /\ worker[id].pc = "sleeping"
    /\ worker[id].timer >= MAX_POLL_DELAY
    /\ requests' = TokenCall(id, requests)
    /\ worker' = [worker EXCEPT ![id].pc = "done", ![id].timer = 0,
                                ![id].token = "dropped",
                                ![id].session = TokenSession(@)]
    /\ UNCHANGED <<max_concurrent_requests, current_requests, channel, next_id,
                   thread, poller>>
    /\ UNCHANGED component_vars

\* The future is dropped at one of its suspension points (not yet polled,
\* awaiting the job, sleeping): a panic of the user future, a cancellation or a
\* runtime shutdown.
DropFuture(id) ==
    /\ worker[id].pc \in {"spawned", "running", "sleeping"}
    /\ worker' = [worker EXCEPT ![id].pc = "dropped", ![id].timer = 0]
    /\ UNCHANGED <<max_concurrent_requests, current_requests, requests, channel,
                   next_id, thread, poller>>
    /\ UNCHANGED component_vars

\* The dropped future releases what it captured, in an order the language does
\* not fix: the sender (the receivers see Canceled) ...
DropSender(id) ==
    /\ worker[id].pc = "dropped"
    /\ worker[id].sender = "held"
    /\ channel' = [channel EXCEPT ![id] = ChanCanceled]
    /\ worker' = [worker EXCEPT ![id].sender = "dropped"]
    /\ UNCHANGED <<max_concurrent_requests, current_requests, requests, next_id,
                   thread, poller>>
    /\ UNCHANGED component_vars

\* ... and the token (its closure removes the map entry).
DropToken(id) ==
    /\ worker[id].pc = "dropped"
    /\ worker[id].token = "held"
    /\ requests' = TokenCall(id, requests)
    /\ worker' = [worker EXCEPT ![id].token = "dropped",
                                ![id].session = TokenSession(@)]
    /\ UNCHANGED <<max_concurrent_requests, current_requests, channel, next_id,
                   thread, poller>>
    /\ UNCHANGED component_vars

(***************************************************************************)
(* get_response and wrap_response_channel.                                 *)
(***************************************************************************)
\* self.inner.requests.lock().unwrap().get(&request_id).cloned()
Lookup(map, request_id) == IF request_id \in map THEN Some(request_id) ELSE None

\* What tokio::time::timeout(t, channel) or channel.await handed back.
Elapsed == [kind |-> "elapsed"]
Received(response) == [kind |-> "ok", response |-> response]
Canceled == [kind |-> "canceled"]

\* The output of the shared receiver once it is ready.
ChannelOutcome(chan) ==
    IF chan.state = "value" THEN Received(chan.response) ELSE Canceled

\* A slip: a dropped sender is taken for a response that is still to come.
wrap_response_channel_canceled_pending(request_id, timeout, outcome) ==
    IF outcome.kind = "ok" THEN outcome.response ELSE Pending(request_id, RETRY_AFTER)

\* async fn wrap_response_channel
wrap_response_channel(request_id, timeout, outcome) ==
    IF timeout.some /\ outcome.kind = "elapsed"
    THEN Pending(request_id, RETRY_AFTER)
    ELSE IF outcome.kind = "ok" THEN outcome.response
    ELSE InternalError

\* The timeouts callers pass, and the ids they can know: the ids returned by a
\* submission, and ids the service never handed out.
PollTimeouts == {None, Some(0), Some(PollTimeout)}
KnownIds == {id \in RequestIds : worker[id].pc # "none"}

\* Lines 333-349: look the channel up under the lock; return None if the id is
\* unknown, else start waiting on the clone of the channel.
GetResponse(p, request_id, timeout) ==
    /\ poller[p].pc = "idle"
    /\ request_id \in KnownIds \cup {UnknownId}
    /\ LET channel_opt == Lookup(requests, request_id) IN
       poller' = [poller EXCEPT ![p] =
          IF channel_opt.some
          THEN [pc |-> "waiting", request_id |-> request_id, timeout |-> timeout,
                timer |-> 0, sent_at_start |-> channel[request_id].state = "value",
                res |-> NoCall]
          ELSE [IdlePoller EXCEPT !.request_id = request_id, !.res = Returned(None)]]
    /\ UNCHANGED <<max_concurrent_requests, current_requests, requests, channel,
                   next_id, thread, worker>>
    /\ UNCHANGED component_vars

\* Time passes for a poll with a timeout.
TickPoll(p) ==
    /\ poller[p].pc = "waiting"
    /\ poller[p].timeout.some
    /\ poller[p].timer < poller[p].timeout.val
    /\ poller' = [poller EXCEPT ![p].timer = poller[p].timeout.val]
    /\ UNCHANGED <<max_concurrent_requests, current_requests, requests, channel,
                   next_id, thread, worker>>
    /\ UNCHANGED component_vars

\* A slip: the receiver is not shared, the first caller takes the value away.
ReturnTakes(p, outcome) ==
    /\ poller' = [poller EXCEPT ![p] =
          [IdlePoller EXCEPT
             !.request_id = poller[p].request_id,
             !.res = Returned(Some(IF outcome.kind = "ok" THEN outcome.response
                                   ELSE InternalError))]]
    /\ channel' = [channel EXCEPT ![poller[p].request_id] =
                      IF outcome.kind = "ok" THEN ChanCanceled ELSE @]
    /\ UNCHANGED <<max_concurrent_requests, current_requests, requests, next_id,
                   thread, worker>>
    /\ UNCHANGED component_vars

\* get_response returns what wrap_response_channel made of the outcome.
Return(p, outcome) ==
    /\ poller' = [poller EXCEPT ![p] =
          [IdlePoller EXCEPT
             !.request_id = poller[p].request_id,
             !.res = Returned(Some(wrap_response_channel(
                         poller[p].request_id, poller[p].timeout, outcome)))]]
    /\ UNCHANGED <<max_concurrent_requests, current_requests, requests, channel,
                   next_id, thread, worker>>
    /\ UNCHANGED component_vars

\* The shared channel is ready (a value or Canceled).
ChannelReady(p) ==
    /\ poller[p].pc = "waiting"
    /\ channel[poller[p].request_id].state # "empty"
    /\ Return(p, ChannelOutcome(channel[poller[p].request_id]))

\* A slip: the deadline is looked at before the channel.
TimerElapsedFirst(p) ==
    /\ poller[p].pc = "waiting"
    /\ poller[p].timeout.some
    /\ poller[p].timer >= poller[p].timeout.val
    /\ poller' = [poller EXCEPT ![p] =
          [IdlePoller EXCEPT
             !.request_id = poller[p].request_id,
             !.res = Returned(Some(Pending(poller[p].request_id, RETRY_AFTER)))]]
    /\ UNCHANGED <<max_concurrent_requests, current_requests, requests, channel,
                   next_id, thread, worker>>
    /\ UNCHANGED component_vars

\* tokio's timeout polls the channel first and finds it not ready, then finds
\* its deadline passed.
TimerElapsed(p) ==
    /\ poller[p].pc = "waiting"
    /\ poller[p].timeout.some
    /\ poller[p].timer >= poller[p].timeout.val
    /\ channel[poller[p].request_id].state = "empty"
    /\ Return(p, Elapsed)

\* A slip: the job is tied to the poll and dropped with it.
AbandonAborts(p) ==
    /\ poller[p].pc = "waiting"
    /\ poller' = [poller EXCEPT ![p] =
          [IdlePoller EXCEPT !.request_id = poller[p].request_id, !.res = Abandoned]]
    /\ worker' = [worker EXCEPT ![poller[p].request_id] =
          IF @.pc \in {"spawned", "running", "sleeping"}
          THEN [@ EXCEPT !.pc = "dropped", !.timer = 0] ELSE @]
    /\ UNCHANGED <<max_concurrent_requests, current_requests, requests, channel,
                   next_id, thread>>
    /\ UNCHANGED component_vars

\* The caller drops the get_response future while it waits.
Abandon(p) ==
    /\ poller[p].pc = "waiting"
    /\ poller' = [poller EXCEPT ![p] =
          [IdlePoller EXCEPT !.request_id = poller[p].request_id, !.res = Abandoned]]
    /\ UNCHANGED <<max_concurrent_requests, current_requests, requests, channel,
                   next_id, thread, worker>>
    /\ UNCHANGED component_vars

(***************************************************************************)
(* The admission model: concurrent submissions and their workers.          *)
(***************************************************************************)
Submit(t, ids) ==
    \/ CreateBegin(t)
    \/ CreateCheck(t, ids)
    \/ CreateInsert(t)
    \/ CreateFetchAdd(t)
    \/ CreateSpawn(t)

Work(id) ==
    \/ FirstPoll(id)
    \/ TickJob(id)
    \/ \E o \in UserOutcomes : JobReturns(id, o)
    \/ JobTimesOut(id)
    \/ FetchSub(id)
    \/ TickSleep(id)
    \/ Wake(id)

Drop(id) ==
    \/ DropFuture(id)
    \/ DropSender(id)
    \/ DropToken(id)

Poll(p) ==
    \/ \E id \in RequestIds \cup {UnknownId}, to \in PollTimeouts : GetResponse(p, id, to)
    \/ TickPoll(p)
    \/ ChannelReady(p)
    \/ TimerElapsed(p)
    \/ Abandon(p)

Next ==
    \/ \E t \in Threads : Submit(t, RequestIds)
    \/ \E id \in RequestIds : Work(id)
    \/ \E id \in RequestIds : Drop(id)

Spec == Init /\ [][Next]_vars

\* Scheduling: create_symbolication_request is synchronous code and runs on; the
\* executor polls a spawned or woken future; time passes for a pending timer.
\* Nothing makes a user future resolve, and nothing forces a drop.
Fairness ==
    /\ \A t \in PollThreads :
          WF_vars(CreateCheck(t, PolledIds) \/ CreateInsert(t) \/ CreateFetchAdd(t)
                    \/ CreateSpawn(t))
    /\ \A id \in RequestIds :
          WF_vars(FirstPoll(id) \/ TickJob(id) \/ JobTimesOut(id) \/ FetchSub(id)
                    \/ TickSleep(id) \/ Wake(id))


\* The same service with one submitting thread, under that scheduling.
FairNext ==
    \/ \E t \in PollThreads : Submit(t, PolledIds)
    \/ \E id \in RequestIds : Work(id)
    \/ \E id \in RequestIds : Drop(id)

FairSpec == Init /\ [][FairNext]_vars /\ Fairness

(***************************************************************************)
(* The polling model: one submitting thread, the workers and the pollers.  *)
(***************************************************************************)
PollNext ==
    \/ \E t \in PollThreads : Submit(t, PolledIds)
    \/ \E id \in RequestIds : Work(id)
    \/ \E id \in RequestIds : Drop(id)
    \/ \E p \in Pollers : Poll(p)

\* Admission is the subject of the admission model: here no limit is configured.
PollInit == Init /\ max_concurrent_requests = None

PollSpec == PollInit /\ [][PollNext]_vars

(***************************************************************************)
(* Notions the properties share.                                           *)
(***************************************************************************)
\* The ids of the admitted submissions (the ones that were not rejected).
AdmittedIds == {id \in RequestIds : id < next_id}

\* The admitted jobs that have not (yet) sent their response.
Unfulfilled == {id \in AdmittedIds : channel[id].state # "value"}

\* The jobs whose submission has returned and that have not sent their response.
InFlight == {id \in Unfulfilled : worker[id].pc # "none"}

\* The admitted jobs whose fetch_sub has not run.
NotDecremented ==
    {id \in AdmittedIds :
        \/ worker[id].pc \in {"none", "spawned", "running", "sent"}
        \/ worker[id].pc = "dropped" /\ worker[id].sender # "used"}

\* The admitted jobs whose fetch_add has run.
Incremented ==
    {id \in AdmittedIds :
        \A t \in Threads :
            thread[t].request_id = id => thread[t].pc \notin {"insert", "fetch_add"}}

\* Thread t takes the admission decision in this step.
Decides(t) == thread[t].pc = "check" /\ thread'[t].pc # "check"
AdmittedNow(t) == thread'[t].pc = "insert" /\ thread'[t].ret = NoRet
RejectedNow(t) == thread'[t].pc = "idle" /\ thread'[t].ret = MaxRequestsError

\* No other thread is inside create_symbolication_request.
Alone(t) == \A u \in Threads \ {t} : thread[u].pc = "idle"

(***************************************************************************)
(* C1.  With max_concurrent_requests = N, a submission made while no other *)
(* submission is in progress and no job has completed is admitted (and     *)
(* then returns its RequestId) iff fewer than N earlier submissions were   *)
(* admitted, so the first N calls succeed and every later one returns      *)
(* MaxRequestsError; with the limit unset no submission is rejected.       *)
(***************************************************************************)
AdmissionCap ==
    [][\A t \in Threads :
          /\ (Decides(t) /\ Alone(t) /\ Unfulfilled = AdmittedIds
                /\ max_concurrent_requests.some)
                => IF Cardinality(AdmittedIds) < max_concurrent_requests.val
                   THEN AdmittedNow(t) ELSE RejectedNow(t)
          /\ (Decides(t) /\ ~max_concurrent_requests.some) => AdmittedNow(t)
          /\ (thread[t].pc = "spawn" /\ thread'[t].pc # "spawn")
                => thread'[t].ret = RetOk(thread[t].request_id)]_vars

\* N submissions were admitted, none has completed, and a later one was rejected.
AdmissionCapWitness ==
    /\ max_concurrent_requests.some
    /\ Cardinality(AdmittedIds) = max_concurrent_requests.val
    /\ Unfulfilled = AdmittedIds
    /\ \A id \in AdmittedIds : worker[id].pc \in {"spawned", "running"}
    /\ \E t \in Threads :
          /\ thread[t].ret = MaxRequestsError
          /\ \A u \in Threads \ {t} : thread[u].ret = RetOk(max_concurrent_requests.val)

(***************************************************************************)
(* C2.  With max_concurrent_requests = N the number of admitted jobs that  *)
(* have not yet sent their response never exceeds N, also when submissions *)
(* run concurrently.                                                       *)
(***************************************************************************)
InFlightBounded ==
    max_concurrent_requests.some
        => Cardinality(InFlight) <= max_concurrent_requests.val

(***************************************************************************)
(* C7.  The response on the channel is fixed by what the job resolved to:  *)
(* Completed with the payload for Ok, Failed with the error's message for  *)
(* an error, Timeout for the elapsed limit (never before 3600 s); never    *)
(* Pending or InternalError.                                               *)
(***************************************************************************)
ResponseMatchesOutcome ==
    /\ [](\A id \in RequestIds :
            channel[id].state = "value" =>
              LET o == worker[id].outcome
                  r == channel[id].response IN
              /\ r.status \in {"completed", "failed", "timeout"}
              /\ o.kind \in {"ok", "err", "elapsed"}
              /\ o.kind = "ok" => r = Completed(o.payload)
              /\ o.kind = "err" => r = Failed(o.message)
              /\ o.kind = "elapsed" => r = Timeout)
    /\ [][\A id \in RequestIds :
            (channel[id].state = "empty" /\ channel'[id].state = "value"
               /\ worker[id].timer < JOB_TIMEOUT)
              => channel'[id].response.status \in {"completed", "failed"}]_vars

\* All three kinds of response have been sent (needs three jobs), or, with
\* fewer ids, a Timeout and another kind.
ResponseMatchesOutcomeWitness ==
    /\ \E id \in RequestIds :
          channel[id].state = "value" /\ channel[id].response = Timeout
    /\ \E id \in RequestIds :
          channel[id].state = "value" /\ channel[id].response.status = "failed"

(***************************************************************************)
(* C10, as claimed.  A submission is admitted whenever fewer than N        *)
(* admitted jobs are unfulfilled (have not sent their response).           *)
(***************************************************************************)
AdmittedWhenFewUnfulfilled ==
    [][\A t \in Threads :
          (Decides(t) /\ max_concurrent_requests.some
             /\ Cardinality(Unfulfilled) < max_concurrent_requests.val)
            => AdmittedNow(t)]_vars

(***************************************************************************)
(* C10, amended.  The counter counts exactly the admitted jobs whose       *)
(* fetch_add has run and whose fetch_sub has not: a job whose worker has   *)
(* decremented is not counted although its entry is retained, and a        *)
(* submission is admitted whenever fewer than N admitted jobs have not     *)
(* performed their decrement.                                              *)
(***************************************************************************)
AdmittedWhenFewCounted ==
    /\ [](current_requests = Cardinality(Incremented \cap NotDecremented))
    /\ [][\A t \in Threads :
            (Decides(t) /\ max_concurrent_requests.some
               /\ Cardinality(NotDecremented) < max_concurrent_requests.val)
              => AdmittedNow(t)]_vars

\* The map holds more entries than the limit: a retained one and a counted one.
AdmittedWhenFewCountedWitness ==
    /\ max_concurrent_requests.some
    /\ Cardinality(requests) > max_concurrent_requests.val
    /\ current_requests = max_concurrent_requests.val
    /\ \E id \in requests : worker[id].pc = "sleeping"

(***************************************************************************)
(* C8.  Under fair scheduling every admitted job whose future is not       *)
(* dropped eventually sends its response (at the latest by the 1-hour      *)
(* limit), then its worker ends with the map entry removed; the channel is *)
(* written once, the counter is decremented by the one fetch_sub step of a *)
(* worker that has sent, and the entry goes no sooner than 90 s later.     *)
(***************************************************************************)
Rank(pc) ==
    CASE pc = "none" -> 0
      [] pc = "spawned" -> 1
      [] pc = "running" -> 2
      [] pc = "sent" -> 3
      [] pc = "sleeping" -> 4
      [] pc = "done" -> 5
      [] pc = "dropped" -> 6

JobsRunToTheEnd ==
    /\ \A id \in RequestIds :
          (id \in AdmittedIds) ~> (channel[id].state = "value" \/ worker[id].pc = "dropped")
    /\ \A id \in RequestIds :
          (channel[id].state = "value") ~> (worker[id].pc \in {"done", "dropped"})
    /\ [](\A id \in RequestIds :
            worker[id].pc = "done" => (id \notin requests /\ channel[id].state = "value"))
    /\ [][\A id \in RequestIds :
            /\ Rank(worker'[id].pc) >= Rank(worker[id].pc)
            /\ channel[id].state # "empty" => channel'[id] = channel[id]
            /\ (worker[id].pc = "sent" /\ worker'[id].pc # "sent")
                 => (worker'[id].pc = "sleeping" /\ current_requests' = current_requests - 1)
            /\ (worker[id].pc = "sleeping" /\ worker'[id].pc = "done")
                 => worker[id].timer >= MAX_POLL_DELAY]_vars
    /\ [][current_requests' < current_requests
            => \E id \in RequestIds : worker[id].pc = "sent" /\ worker'[id].pc = "sleeping"]_vars

\* A job whose user future never resolved ran into the limit and to its end.
JobsRunToTheEndWitness ==
    \E id \in RequestIds :
        /\ worker[id].pc = "done"
        /\ worker[id].outcome = JobElapsed
        /\ id \notin requests
        /\ current_requests = 0

(***************************************************************************)
(* Notions the polling properties share.                                   *)
(***************************************************************************)
\* Poller p's get_response call returns in this step: at once (the id was not
\* in the map) or after waiting on the channel.
ReturnsNow(p) ==
    /\ poller'[p] # poller[p]
    /\ poller'[p].pc = "idle"
    /\ poller'[p].res.kind = "returned"
ReturnsAtOnce(p) == poller[p].pc = "idle" /\ ReturnsNow(p)
ReturnsFromWait(p) == poller[p].pc = "waiting" /\ ReturnsNow(p)

\* Poller p looks a request id up in this step.
LooksUp(p) == poller[p].pc = "idle" /\ poller'[p] # poller[p]

\* The response poller p holds from its last call, if that call returned one of
\* the responses a worker sends.
HoldsSent(p) ==
    /\ poller[p].res.kind = "returned"
    /\ poller[p].res.opt.some
    /\ poller[p].res.opt.val.status \in {"completed", "failed", "timeout"}

\* The worker of id was dropped before it sent a response.
DroppedBeforeSend(id) == worker[id].pc = "dropped" /\ worker[id].sender # "used"

(***************************************************************************)
(* C3.  A get_response call that found the entry and whose channel yields  *)
(* a value returns exactly the response on the channel; every poller that  *)
(* holds a sent response for an id holds the one on that id's channel, and *)
(* the value on a channel never changes.                                   *)
(***************************************************************************)
PollsAgree ==
    /\ [](\A p \in Pollers :
            HoldsSent(p) =>
              /\ poller[p].request_id \in RequestIds
              /\ channel[poller[p].request_id] = ChanValue(poller[p].res.opt.val))
    /\ [][\A p \in Pollers :
            (ReturnsFromWait(p) /\ channel[poller[p].request_id].state = "value")
              => poller'[p].res
                   = Returned(Some(channel[poller[p].request_id].response))]_vars
    /\ [][\A id \in RequestIds :
            channel[id].state = "value" => channel'[id] = channel[id]]_vars

\* Two callers hold the same Completed response of one request.
PollsAgreeWitness ==
    \E id \in RequestIds :
        /\ channel[id].state = "value"
        /\ channel[id].response.status = "completed"
        /\ \A p \in Pollers :
              /\ poller[p].request_id = id
              /\ poller[p].res = Returned(Some(channel[id].response))

(***************************************************************************)
(* C4, as claimed.  A poll with Some(t) whose timer has fired while the    *)
(* worker has not sent a response returns Pending with the same id and     *)
(* retry_after = 30; Pending is returned only with a timeout and only if   *)
(* the response had not been sent when the poll started.                   *)
(***************************************************************************)
PendingWhenNotSent ==
    [][\A p \in Pollers :
          ReturnsFromWait(p) =>
            LET id == poller[p].request_id
                r == poller'[p].res.opt.val IN
            /\ (/\ poller[p].timeout.some
                /\ poller[p].timer >= poller[p].timeout.val
                /\ channel[id].state # "value")
                 => r = Pending(id, 30)
            /\ r.status = "pending"
                 => /\ poller[p].timeout.some
                    /\ ~poller[p].sent_at_start
                    /\ r = Pending(id, 30)]_vars

(***************************************************************************)
(* C4, amended.  The same, for a request whose channel is still unresolved *)
(* when the timer fires: the worker has neither sent a response nor been   *)
(* dropped (a dropped sender yields InternalError, not Pending).           *)
(***************************************************************************)
PendingWhenUnresolved ==
    [][\A p \in Pollers :
          ReturnsFromWait(p) =>
            LET id == poller[p].request_id
                r == poller'[p].res.opt.val IN
            /\ (/\ poller[p].timeout.some
                /\ poller[p].timer >= poller[p].timeout.val
                /\ channel[id].state = "empty")
                 => r = Pending(id, 30)
            /\ r.status = "pending"
                 => /\ poller[p].timeout.some
                    /\ ~poller[p].sent_at_start
                    /\ channel[id].state = "empty"
                    /\ r = Pending(id, 30)]_vars

\* A caller was told Pending for a request whose job is still running.
PendingWhenUnresolvedWitness ==
    \E p \in Pollers, id \in RequestIds :
        /\ poller[p].res = Returned(Some(Pending(id, 30)))
        /\ worker[id].pc = "running"

(***************************************************************************)
(* C5.  The entry of a request whose worker is not dropped is in the map   *)
(* from the return of the submission until the worker wakes from its sleep,*)
(* which happens no sooner than MAX_POLL_DELAY = 90 s after the send, and  *)
(* is removed by that step; a lookup after the removal returns None, a     *)
(* lookup between the send and the removal finds the entry and the call    *)
(* returns the response.                                                   *)
(***************************************************************************)
RetentionWindow ==
    /\ [](\A id \in RequestIds :
            /\ worker[id].pc \in {"spawned", "running", "sent", "sleeping"}
                 => id \in requests
            /\ worker[id].pc = "done" => id \notin requests)
    /\ [][\A id \in RequestIds :
            (id \in requests /\ id \notin requests' /\ worker[id].pc # "dropped")
              => /\ worker[id].pc = "sleeping"
                 /\ worker[id].timer >= 90
                 /\ worker'[id].pc = "done"]_vars
    /\ [][\A p \in Pollers :
            LET id == poller'[p].request_id IN
            /\ (LooksUp(p) /\ id \in RequestIds /\ worker[id].pc = "done")
                 => poller'[p].res = Returned(None)
            /\ (LooksUp(p) /\ id \in RequestIds /\ worker[id].pc \in {"sent", "sleeping"})
                 => (poller'[p].pc = "waiting" /\ poller'[p].sent_at_start)
            /\ (ReturnsFromWait(p) /\ poller[p].sent_at_start)
                 => poller'[p].res = Returned(Some(channel[id].response))]_vars

\* One caller got the response inside the window, another None after it.
RetentionWindowWitness ==
    \E id \in RequestIds :
        /\ worker[id].pc = "done"
        /\ \E p \in Pollers : poller[p].request_id = id /\ poller[p].res = Returned(None)
        /\ \E p \in Pollers : poller[p].request_id = id /\ HoldsSent(p)

(***************************************************************************)
(* C6, as claimed.  Every get_response(id, None) call for a request whose  *)
(* worker was dropped before it sent a response returns InternalError,     *)
(* whether it looked the id up before the drop or after it.                *)
(***************************************************************************)
DroppedIsInternalError ==
    [][\A p \in Pollers :
          LET id == poller'[p].request_id IN
          (/\ ReturnsNow(p)
           /\ poller[p].pc = "waiting" => ~poller[p].timeout.some
           /\ id \in RequestIds
           /\ DroppedBeforeSend(id))
            => poller'[p].res = Returned(Some(InternalError))]_vars

(***************************************************************************)
(* C6, amended.  Such a call returns InternalError if it found the entry   *)
(* (it looked the id up before the drop guard removed it), and None if it  *)
(* looked the id up after the drop guard removed the entry.                *)
(***************************************************************************)
DroppedIsInternalErrorOrUnknown ==
    [][\A p \in Pollers :
          LET id == poller'[p].request_id IN
          /\ (/\ ReturnsFromWait(p)
              /\ ~poller[p].timeout.some
              /\ DroppedBeforeSend(id))
               => poller'[p].res = Returned(Some(InternalError))
          /\ (/\ ReturnsAtOnce(p)
              /\ id \in RequestIds
              /\ DroppedBeforeSend(id))
               => (poller'[p].res = Returned(None) /\ worker[id].token = "dropped")
          /\ (/\ LooksUp(p)
              /\ id \in RequestIds
              /\ DroppedBeforeSend(id)
              /\ worker[id].token = "dropped")
               => poller'[p].res = Returned(None)]_vars

\* One caller saw InternalError, a later one None, for the same dropped job.
DroppedIsInternalErrorOrUnknownWitness ==
    \E id \in RequestIds :
        /\ DroppedBeforeSend(id)
        /\ \E p \in Pollers :
              poller[p].request_id = id /\ poller[p].res = Returned(Some(InternalError))
        /\ \E p \in Pollers :
              poller[p].request_id = id /\ poller[p].res = Returned(None)

(***************************************************************************)
(* C9.  No step of a get_response call (the lookup, a return with a        *)
(* response, with Pending or with None, the caller abandoning it) changes  *)
(* the map, the counter, a channel or a worker: the job goes on.           *)
(***************************************************************************)
PollsLeaveServiceAlone ==
    [][(\E p \in Pollers : poller'[p] # poller[p])
          => UNCHANGED <<requests, current_requests, channel, worker, thread,
                         next_id, max_concurrent_requests>>]_vars

\* A poll was abandoned and another returned Pending; the job went on, sent its
\* response, and a later poll received it.
PollsLeaveServiceAloneWitness ==
    \E id \in RequestIds :
        /\ worker[id].pc = "sleeping"
        /\ channel[id].state = "value"
        /\ poller["p1"].request_id = id /\ poller["p1"].res = Abandoned
        /\ poller["p2"].request_id = id /\ HoldsSent("p2")

(***************************************************************************)
(* The file-system cache (caching/fs.rs).                                  *)
(***************************************************************************)
\* Seconds by which the wall clock is observed to advance in one step, and the
\* number of such steps in one run.
ClockTick == 1800
MaxClock == 4

\* const TOUCH_EVERY: Duration = Duration::from_secs(3600)
TOUCH_EVERY == 3600
\* Duration::MAX, as the largest number of seconds the integers here hold (no
\* clock reading of a run comes near it).
DURATION_MAX == 2147483647

\* The durations a cache is configured with, and the clock readings of a run.
ConfigDurations == {None} \cup {Some(d) : d \in {0, ClockTick, 2 * ClockTick}}
Times == {n * ClockTick : n \in 0..MaxClock}
\* The mtimes of the files found at start, among them one ahead of the clock.
StartTimes == {0, ClockTick}
FileTimes == {0, ClockTick, 2 * ClockTick}

\* The configurations of a run: every kind, every duration in every place, the
\* three durations of one configuration all different (so that reading the
\* wrong one shows).
NextDuration(d) ==
    CASE d = None -> Some(0)
      [] d = Some(0) -> Some(ClockTick)
      [] d = Some(ClockTick) -> Some(2 * ClockTick)
      [] OTHER -> None
CacheConfigs ==
    {CacheConfig(k, u, NextDuration(u), NextDuration(NextDuration(u))) :
        k \in ConfigKinds, u \in ConfigDurations}

\* Option::unwrap_or, Duration::saturating_sub
unwrap_or(opt, default) == IF opt.some THEN opt.val ELSE default
saturating_sub(a, b) == IF a > b THEN a - b ELSE 0

\* A slip: for an mtime ahead of the clock, the distance to it.
mtime_distance(mtime, now) == IF now >= mtime THEN now - mtime ELSE mtime - now

\* mtime.elapsed().unwrap_or_default(): zero for an mtime ahead of the clock.
mtime_elapsed(mtime, now) == IF now >= mtime THEN now - mtime ELSE 0

\* A slip: the kind of cache decides before the entry is looked at.
expiration_strategy_by_kind(cache_config, status) ==
    CASE cache_config.kind = "Downloaded" -> "Negative"
      [] cache_config.kind = "Derived" -> "Malformed"
      [] cache_config.kind = "Diagnostics" -> "None"

\* fn expiration_strategy(cache_config, status) -> ExpirationStrategy
expiration_strategy(cache_config, status) ==
    IF status.ok THEN "None"
    ELSE IF status.error = "NotFound" THEN "Negative"
    ELSE IF status.error = "Malformed" THEN "Malformed"
    ELSE CASE cache_config.kind = "Downloaded" -> "Negative"
           [] cache_config.kind = "Derived" -> "Malformed"
           [] cache_config.kind = "Diagnostics" -> "None"

\* io::Result of check_expiry: Ok((cache_entry, expiration_time)) or Err(kind).
ExpiryOk(entry, expiration) == [ok |-> TRUE, entry |-> entry, expiration |-> expiration]
IoErr(kind) == [ok |-> FALSE, kind |-> kind]

\* How the file system treats one call: every operation succeeds, or one of
\* them fails.  NotFound: the cleanup removed the file by then; Other: any
\* other io::ErrorKind (metadata.modified() has no NotFound case).
IoSteps == {"metadata", "open", "modified", "touch"}
IoFine == [step |-> "none"]
IoFails(step, kind) == [step |-> step, kind |-> kind]
IoOutcomes ==
    {IoFine} \cup {IoFails(st, k) : st \in IoSteps \ {"modified"}, k \in {"NotFound", "Other"}}
             \cup {IoFails("modified", "Other")}

\* A slip: >= in place of >, an entry aged exactly max_unused_for is a miss.
ExpirationOfGoodAtLimit(c, entry, elapsed) ==
    LET max_unused_for == unwrap_or(c.cache_config.max_unused_for, DURATION_MAX) IN
    IF elapsed >= max_unused_for THEN IoErr("NotFound")
    ELSE ExpiryOk(entry, TouchIn(saturating_sub(TOUCH_EVERY, elapsed)))

\* Lines 124-134, ExpirationStrategy::None.
ExpirationOfGood(c, entry, elapsed) ==
    LET max_unused_for == unwrap_or(c.cache_config.max_unused_for, DURATION_MAX) IN
    IF elapsed > max_unused_for THEN IoErr("NotFound")
    ELSE ExpiryOk(entry, TouchIn(saturating_sub(TOUCH_EVERY, elapsed)))

\* A slip: the time left of a negative entry is returned as a time to touch.
ExpirationOfMissTouch(c, entry, elapsed) ==
    LET retry_misses_after == unwrap_or(c.cache_config.retry_misses_after, DURATION_MAX)
        expires_in == saturating_sub(retry_misses_after, elapsed) IN
    IF expires_in = 0 THEN IoErr("NotFound")
    ELSE ExpiryOk(entry, TouchIn(expires_in))

\* Lines 135-148, ExpirationStrategy::Negative.
ExpirationOfMiss(c, entry, elapsed) ==
    LET retry_misses_after == unwrap_or(c.cache_config.retry_misses_after, DURATION_MAX)
        expires_in == saturating_sub(retry_misses_after, elapsed) IN
    IF expires_in = 0 THEN IoErr("NotFound")
    ELSE ExpiryOk(entry, RefreshIn(expires_in))

\* A slip: the comparison of mtime and start_time is left out.
ExpirationOfMalformedAnyAge(c, entry, mtime, elapsed) ==
    LET retry_malformed_after ==
            unwrap_or(c.cache_config.retry_malformed_after, DURATION_MAX)
        expires_in == saturating_sub(retry_malformed_after, elapsed) IN
    IF expires_in = 0 THEN IoErr("NotFound")
    ELSE ExpiryOk(entry, RefreshIn(expires_in))

\* Lines 149-165, ExpirationStrategy::Malformed.
ExpirationOfMalformed(c, entry, mtime, elapsed) ==
    LET retry_malformed_after ==
            unwrap_or(c.cache_config.retry_malformed_after, DURATION_MAX)
        expires_in == saturating_sub(retry_malformed_after, elapsed) IN
    IF mtime < c.start_time \/ expires_in = 0 THEN IoErr("NotFound")
    ELSE ExpiryOk(entry, RefreshIn(expires_in))

\* Lines 118-166: the expiration time of an entry read without an I/O error,
\* or Err(NotFound) for an expired one.
Expiration(c, entry, mtime, now) ==
    LET elapsed == mtime_elapsed(mtime, now)
        strategy == expiration_strategy(c.cache_config, entry) IN
    CASE strategy = "None" -> ExpirationOfGood(c, entry, elapsed)
      [] strategy = "Negative" -> ExpirationOfMiss(c, entry, elapsed)
      [] strategy = "Malformed" -> ExpirationOfMalformed(c, entry, mtime, elapsed)

\* fn check_expiry(&self, path): path.metadata()?, ByteView::open(path)?,
\* metadata.modified()?, then the expiration of the decoded entry.
check_expiry(c, f, now, io) ==
    IF io.step \in {"metadata", "open", "modified"} THEN IoErr(io.kind)
    ELSE Expiration(c, f.entry, f.mtime, now)

\* A slip: every error is taken for a miss.
catch_every_error(result) ==
    IF result.ok THEN [ok |-> TRUE, value |-> Some(result)]
    ELSE [ok |-> TRUE, value |-> None]

\* fn catch_not_found(f): Ok(x) -> Ok(Some(x)), Err(NotFound) -> Ok(None),
\* any other error -> Err(e).
catch_not_found(result) ==
    IF result.ok THEN [ok |-> TRUE, value |-> Some(result)]
    ELSE IF result.kind = "NotFound" THEN [ok |-> TRUE, value |-> None]
    ELSE result

\* A slip: every positive hit is touched, the debounce is lost.
should_touch_every_hit(checked) ==
    checked.ok /\ checked.expiration.variant = "TouchIn"

\* matches!(expiration, ExpirationTime::TouchIn(Duration::ZERO))
should_touch(checked) ==
    checked.ok /\ checked.expiration = TouchIn(0)

\* The closure of open_cachefile: check_expiry, then the touch of a positive
\* entry that is due.
open_cachefile_inner(c, f, now, io) ==
    LET checked == check_expiry(c, f, now, io) IN
    IF ~should_touch(checked) THEN checked
    ELSE IF io.step = "touch" THEN IoErr(io.kind)
    ELSE ExpiryOk(checked.entry, TouchIn(TOUCH_EVERY))

\* pub fn open_cachefile(&self, path)
open_cachefile(c, f, now, io) == catch_not_found(open_cachefile_inner(c, f, now, io))

\* The file after the call: touched (filetime::set_file_mtime(path, now)) if the
\* touch was due and nothing failed, gone if the cleanup removed it on the way.
FileAfter(c, f, now, io, touching) ==
    IF io.step # "none" /\ io.kind = "NotFound" THEN [f EXCEPT !.exists = FALSE]
    ELSE IF touching /\ io.step = "none" /\ should_touch(check_expiry(c, f, now, io))
    THEN [f EXCEPT !.mtime = now]
    ELSE f

(***************************************************************************)
(* The cache model: one Cache, one path of its directory, the clock.       *)
(***************************************************************************)
\* The request service at rest.
ServiceIdle ==
    /\ max_concurrent_requests = None
    /\ current_requests = 0
    /\ requests = {}
    /\ channel = [id \in RequestIds |-> ChanEmpty]
    /\ next_id = 1
    /\ thread = [t \in Threads |-> IdleThread]
    /\ worker = [id \in RequestIds |-> NoWorker]
    /\ poller = [p \in Pollers |-> IdlePoller]

\* Cache::from_config, for every configuration: start_time is the clock's
\* reading; the path holds no file or a file left by an earlier writer.
\* opened records the last call: which function, the clock's reading and the
\* file's mtime when it was made, what the file system did to it, what it
\* returned; and, as a history variable, when the entry was last written or
\* successfully opened (last_hit).
CacheInit ==
    /\ ServiceIdle
    /\ clock \in StartTimes
    /\ cache \in [cache_dir : {None, Some("caches")},
                  start_time : {clock},
                  cache_config : CacheConfigs]
    /\ file \in {NoFile} \cup [exists : {TRUE}, entry : CacheEntries, mtime : FileTimes]
    /\ opened = [call |-> "none", last_hit |-> file.mtime]
    /\ client = NoClient
    /\ connection = NoConnection
    /\ emitted = NotEmitted
    /\ readers = NoReaders
    /\ store = NoStore

\* Time passes.
TickClock ==
    /\ clock < MaxClock * ClockTick
    /\ clock' = clock + ClockTick
    /\ UNCHANGED <<cache, file, opened, client, connection, emitted, readers, store>>
    /\ UNCHANGED service_vars

\* What the file system can do to a call made now: a missing file fails the
\* first operation with NotFound; the touch can only fail if it is attempted.
IoPossible(io, touching) ==
    /\ ~file.exists => io = IoFails("metadata", "NotFound")
    /\ io.step = "touch" =>
          (touching /\ should_touch(check_expiry(cache, file, clock, IoFine)))

\* A call of check_expiry on the path (by the cleanup).
CheckExpiry(io) ==
    /\ IoPossible(io, FALSE)
    /\ opened' = [call |-> "check_expiry", at |-> clock, mtime |-> file.mtime,
                  io |-> io,
                  ret |-> check_expiry(cache, file, clock, io),
                  last_hit |-> opened.last_hit]
    /\ file' = FileAfter(cache, file, clock, io, FALSE)
    /\ UNCHANGED <<cache, clock, client, connection, emitted, readers, store>>
    /\ UNCHANGED service_vars

\* A call of open_cachefile on the path.
OpenCachefile(io) ==
    /\ IoPossible(io, TRUE)
    /\ LET ret == open_cachefile(cache, file, clock, io) IN
       opened' = [call |-> "open_cachefile", at |-> clock, mtime |-> file.mtime,
                  io |-> io,
                  ret |-> ret,
                  last_hit |-> IF ret.ok /\ ret.value.some THEN clock
                               ELSE opened.last_hit]
    /\ file' = FileAfter(cache, file, clock, io, TRUE)
    /\ UNCHANGED <<cache, clock, client, connection, emitted, readers, store>>
    /\ UNCHANGED service_vars

CacheNext ==
    \/ TickClock
    \/ \E io \in IoOutcomes : CheckExpiry(io)
    \/ \E io \in IoOutcomes : OpenCachefile(io)

CacheSpec == CacheInit /\ [][CacheNext]_vars

(***************************************************************************)
(* Notions the cache properties share.                                     *)
(***************************************************************************)
\* The last call was of fn and no operation of the file system failed in it.
Called(fn) == opened.call = fn /\ opened.io = IoFine

\* The age of the file at the last call, and the strategy of its entry.
Age == IF opened.at >= opened.mtime THEN opened.at - opened.mtime ELSE 0
Strategy == expiration_strategy(cache.cache_config, file.entry)

\* The last call of check_expiry reported the entry expired / usable.
Miss == IoErr("NotFound")
Hit(expiration) == ExpiryOk(file.entry, expiration)

(***************************************************************************)
(* C11.  check_expiry decides as the expiration rule states.  An entry     *)
(* with the None strategy is a miss exactly when its age exceeds           *)
(* max_unused_for (at exactly max_unused_for it is a hit) and otherwise    *)
(* yields TouchIn(max(0, 3600 - age)); an entry with the Negative strategy *)
(* is a miss exactly when its age is at least retry_misses_after and       *)
(* otherwise yields RefreshIn(retry_misses_after - age), which is not      *)
(* zero; an unconfigured duration never makes the entry a miss.            *)
(***************************************************************************)
ExpiryRule ==
    Called("check_expiry") =>
        LET u == cache.cache_config.max_unused_for
            r == cache.cache_config.retry_misses_after IN
        /\ Strategy = "None" =>
              IF u.some /\ Age > u.val THEN opened.ret = Miss
              ELSE opened.ret = Hit(TouchIn(IF Age < 3600 THEN 3600 - Age ELSE 0))
        /\ Strategy = "Negative" =>
              IF r.some /\ Age >= r.val THEN opened.ret = Miss
              ELSE /\ opened.ret.ok
                   /\ opened.ret.entry = file.entry
                   /\ opened.ret.expiration.variant = "RefreshIn"
                   /\ opened.ret.expiration.duration > 0
                   /\ r.some => opened.ret.expiration.duration = r.val - Age

\* A positive entry aged exactly max_unused_for (not zero) was found usable.
ExpiryRuleWitness ==
    /\ Called("check_expiry")
    /\ Strategy = "None"
    /\ cache.cache_config.max_unused_for.some
    /\ Age = cache.cache_config.max_unused_for.val
    /\ Age > 0
    /\ opened.ret.ok

\* What open_cachefile returns: Ok(None) for a miss, Ok(Some((entry, expiration)))
\* for a hit, Err(e) for an I/O error.
OpenMiss == [ok |-> TRUE, value |-> None]
OpenHit(expiration) == [ok |-> TRUE, value |-> Some(Hit(expiration))]

(***************************************************************************)
(* C12.  For an entry with the Malformed strategy open_cachefile returns a *)
(* miss whenever the file's mtime is earlier than the cache's start_time,  *)
(* whatever retry_malformed_after is (unconfigured too); for an mtime not  *)
(* earlier it is a miss exactly when the age is at least                   *)
(* retry_malformed_after, and otherwise yields                             *)
(* RefreshIn(retry_malformed_after - age).                                 *)
(***************************************************************************)
MalformedRule ==
    (Called("open_cachefile") /\ Strategy = "Malformed") =>
        LET r == cache.cache_config.retry_malformed_after IN
        IF opened.mtime < cache.start_time THEN opened.ret = OpenMiss
        ELSE IF r.some /\ Age >= r.val THEN opened.ret = OpenMiss
        ELSE /\ opened.ret.ok
             /\ opened.ret.value.some
             /\ opened.ret.value.val.entry = file.entry
             /\ opened.ret.value.val.expiration.variant = "RefreshIn"
             /\ opened.ret.value.val.expiration.duration > 0
             /\ r.some => opened.ret.value.val.expiration.duration = r.val - Age

\* A malformed entry older than the process was a miss although no retry time
\* is configured.
MalformedRuleWitness ==
    /\ Called("open_cachefile")
    /\ Strategy = "Malformed"
    /\ opened.mtime < cache.start_time
    /\ ~cache.cache_config.retry_malformed_after.some
    /\ opened.ret = OpenMiss

(***************************************************************************)
(* C13.  open_cachefile on a positive, unexpired entry changes the file's  *)
(* mtime if and only if the entry's age is at least TOUCH_EVERY (3600 s):  *)
(* then it sets the mtime to now and returns the content with              *)
(* TouchIn(3600); for a smaller age the mtime is left as it was and        *)
(* TouchIn(3600 - age) is returned.  No other call changes the mtime.      *)
(***************************************************************************)
Unexpired ==
    \/ ~cache.cache_config.max_unused_for.some
    \/ Age <= cache.cache_config.max_unused_for.val

TouchRule ==
    /\ (Called("open_cachefile") /\ Strategy = "None" /\ Unexpired) =>
          IF Age >= 3600
          THEN file.mtime = opened.at /\ opened.ret = OpenHit(TouchIn(3600))
          ELSE file.mtime = opened.mtime /\ opened.ret = OpenHit(TouchIn(3600 - Age))
    /\ (opened.call # "none" /\ file.mtime # opened.mtime) =>
          /\ Called("open_cachefile")
          /\ Strategy = "None"
          /\ Unexpired
          /\ Age >= 3600
          /\ file.mtime = opened.at

\* A positive entry aged an hour or more was opened and touched.
TouchRuleWitness ==
    /\ Called("open_cachefile")
    /\ Strategy = "None"
    /\ Age >= 3600
    /\ file.mtime = opened.at
    /\ file.mtime # opened.mtime
    /\ opened.ret = OpenHit(TouchIn(3600))

(***************************************************************************)
(* C14.  Expiry is monotone in time: for a file whose content and mtime    *)
(* stay as they are, once check_expiry reports it expired at one reading   *)
(* of the clock it reports it expired at every later reading, whatever the *)
(* strategy and the configuration, also for an mtime ahead of the clock.   *)
(***************************************************************************)
ExpiredAt(now) == ~check_expiry(cache, file, now, IoFine).ok

ExpiryMonotone ==
    /\ [](file.exists =>
            \A t1 \in Times, t2 \in Times :
                (t1 <= t2 /\ ExpiredAt(t1)) => ExpiredAt(t2))
    /\ [][(/\ Called("check_expiry")
           /\ opened.ret = Miss
           /\ opened'.call = "check_expiry"
           /\ opened'.io = IoFine
           /\ opened'.mtime = opened.mtime
           /\ opened'.at >= opened.at)
            => opened'.ret = Miss]_vars

\* An entry was reported expired at a reading of the clock later than one at
\* which it was expired already.
ExpiryMonotoneWitness ==
    /\ Called("check_expiry")
    /\ opened.ret = Miss
    /\ file.mtime = opened.mtime
    /\ opened.at >= ClockTick
    /\ ExpiredAt(opened.at - ClockTick)

(***************************************************************************)
(* C15.  In open_cachefile a NotFound I/O error at any step (reading the   *)
(* metadata, opening the file, touching it after the cleanup removed it)   *)
(* yields Ok(None); an I/O error of any other kind is returned as that     *)
(* error, never as a miss or a hit; and nothing else is returned as an     *)
(* error.                                                                  *)
(***************************************************************************)
NotFoundIsMiss ==
    opened.call = "open_cachefile" =>
        /\ (opened.io.step # "none" /\ opened.io.kind = "NotFound")
              => opened.ret = OpenMiss
        /\ (opened.io.step # "none" /\ opened.io.kind # "NotFound")
              => opened.ret = IoErr(opened.io.kind)
        /\ ~opened.ret.ok => (opened.io.step # "none" /\ opened.io.kind # "NotFound")

\* The cleanup removed a positive entry between its check and its touch: a miss.
NotFoundIsMissWitness ==
    /\ opened.call = "open_cachefile"
    /\ opened.io = IoFails("touch", "NotFound")
    /\ opened.ret = OpenMiss
    /\ ~file.exists

(***************************************************************************)
(* C16.  On a disabled cache (cache_dir absent) every open_cachefile       *)
(* returns None, also for a path that holds a valid unexpired file, and    *)
(* touches no file.                                                        *)
(***************************************************************************)
DisabledCacheMisses ==
    (opened.call = "open_cachefile" /\ ~cache.cache_dir.some) =>
        /\ opened.ret = OpenMiss
        /\ file.mtime = opened.mtime

(***************************************************************************)
(* C17.  expiration_strategy is total and matches the rule table for every *)
(* kind of CacheConfig and every variant of CacheEntry: Ok -> None,        *)
(* NotFound -> Negative, Malformed -> Malformed, any other error ->        *)
(* Negative for Downloaded, Malformed for Derived, None for Diagnostics;   *)
(* and check_expiry treats the entry by that strategy (TouchIn for None,   *)
(* RefreshIn for the two others).                                          *)
(***************************************************************************)
RuleTable(kind, entry) ==
    IF entry = EntryOk THEN "None"
    ELSE IF entry = EntryErr("NotFound") THEN "Negative"
    ELSE IF entry = EntryErr("Malformed") THEN "Malformed"
    ELSE IF kind = "Downloaded" THEN "Negative"
    ELSE IF kind = "Derived" THEN "Malformed"
    ELSE "None"

StrategyTable ==
    /\ Strategy \in {"None", "Negative", "Malformed"}
    /\ Strategy = RuleTable(cache.cache_config.kind, file.entry)
    /\ (Called("check_expiry") /\ opened.ret.ok) =>
          (opened.ret.expiration.variant = "TouchIn"
              <=> RuleTable(cache.cache_config.kind, file.entry) = "None")

\* An error other than NotFound and Malformed in a Diagnostics cache was
\* treated as a positive entry.
StrategyTableWitness ==
    /\ Called("check_expiry")
    /\ cache.cache_config.kind = "Diagnostics"
    /\ ~file.entry.ok
    /\ file.entry.error \in OtherCacheErrors
    /\ opened.ret.ok
    /\ opened.ret.expiration.variant = "TouchIn"

(***************************************************************************)
(* C20.  Positive entries expire by idle time: over any sequence of        *)
(* open_cachefile calls a positive entry is reported expired only if it    *)
(* was last written or successfully opened longer than max_unused_for ago  *)
(* (for every max_unused_for, also one below TOUCH_EVERY).                 *)
(***************************************************************************)
ExpiresOnlyWhenIdle ==
    (/\ Called("open_cachefile")
     /\ Strategy = "None"
     /\ opened.ret = OpenMiss)
      => /\ cache.cache_config.max_unused_for.some
         /\ opened.at > opened.last_hit + cache.cache_config.max_unused_for.val

(***************************************************************************)
(* The HTTP client (utils/http.rs).                                        *)
(***************************************************************************)
\* std::net::IpAddr: V4 with its four octets, or V6 (its bits play no part).
V4(a, b, c, d) == [v |-> 4, octets |-> <<a, b, c, d>>]
V6 == [v |-> 6]

\* ipnetwork::Ipv4Network: an address and a prefix length.
Ipv4Network(a, b, c, d, prefix) == [addr |-> <<a, b, c, d>>, prefix |-> prefix]

\* static ref RESERVED_IP_BLOCKS
RESERVED_IP_BLOCKS ==
    {Ipv4Network(0, 0, 0, 0, 8), Ipv4Network(10, 0, 0, 0, 8),
     Ipv4Network(100, 64, 0, 0, 10), Ipv4Network(127, 0, 0, 0, 8),
     Ipv4Network(169, 254, 0, 0, 16), Ipv4Network(172, 16, 0, 0, 12),
     Ipv4Network(192, 0, 0, 0, 29), Ipv4Network(192, 0, 2, 0, 24),
     Ipv4Network(192, 88, 99, 0, 24), Ipv4Network(192, 168, 0, 0, 16),
     Ipv4Network(198, 18, 0, 0, 15), Ipv4Network(198, 51, 100, 0, 24),
     Ipv4Network(224, 0, 0, 0, 4), Ipv4Network(240, 0, 0, 0, 4),
     Ipv4Network(255, 255, 255, 255, 32)}

\* The number of bits of octet i (1..4) that a prefix covers, and the size of
\* the part of that octet it leaves free.
PrefixBits(prefix, i) ==
    IF prefix >= 8 * i THEN 8
    ELSE IF prefix <= 8 * (i - 1) THEN 0
    ELSE prefix - 8 * (i - 1)
HostSize(prefix, i) == 2 ^ (8 - PrefixBits(prefix, i))

\* A slip: the prefix is rounded down to whole octets.
contains_whole_octets(network, octets) ==
    \A i \in 1..4 :
        (8 * i <= network.prefix) => octets[i] = network.addr[i]

\* Ipv4Network::contains: the address and the network agree under the mask.
contains(network, octets) ==
    \A i \in 1..4 :
        octets[i] \div HostSize(network.prefix, i)
            = network.addr[i] \div HostSize(network.prefix, i)

\* A slip: an IPv6 address is taken to be external.
is_external_ip_v6_external(ip) ==
    IF ip.v = 6 THEN TRUE
    ELSE ~\E network \in RESERVED_IP_BLOCKS : contains(network, ip.octets)

\* fn is_external_ip(ip: std::net::IpAddr) -> bool
is_external_ip(ip) ==
    IF ip.v = 6 THEN FALSE
    ELSE ~\E network \in RESERVED_IP_BLOCKS : contains(network, ip.octets)

\* metric!(counter("http.blocked_ip") += 1): the number of increments one call
\* of is_external_ip makes.  The IPv6 arm returns before the loop; the loop
\* returns at the first block that contains the address.
blocked_ip(ip) ==
    IF ip.v = 6 THEN 0
    ELSE IF \E network \in RESERVED_IP_BLOCKS : contains(network, ip.octets) THEN 1
    ELSE 0

\* A slip: && in place of ||.
wants_ip_filter_and(connect_to_reserved_ips, trusted) ==
    ~(trusted /\ connect_to_reserved_ips)

\* if !(trusted || config.connect_to_reserved_ips) { builder.ip_filter(..) }
wants_ip_filter(connect_to_reserved_ips, trusted) ==
    ~(trusted \/ connect_to_reserved_ips)

\* pub fn create_client(config: &Config, trusted: bool) -> reqwest::Client
create_client(connect_to_reserved_ips, trusted) ==
    [built |-> TRUE, trusted |-> trusted,
     connect_to_reserved_ips |-> connect_to_reserved_ips,
     ip_filter |-> wants_ip_filter(connect_to_reserved_ips, trusted)]

\* The addresses tried: the first and the last address of every reserved block,
\* the address just below and the one just above it, some well-known ones, and
\* an IPv6 address.
FirstOf(network) ==
    [i \in 1..4 |-> network.addr[i] - (network.addr[i] % HostSize(network.prefix, i))]
LastOf(network) ==
    [i \in 1..4 |-> FirstOf(network)[i] + HostSize(network.prefix, i) - 1]
Below(o) ==
    IF o[4] > 0 THEN [o EXCEPT ![4] = @ - 1]
    ELSE IF o[3] > 0 THEN [o EXCEPT ![3] = @ - 1, ![4] = 255]
    ELSE IF o[2] > 0 THEN [o EXCEPT ![2] = @ - 1, ![3] = 255, ![4] = 255]
    ELSE IF o[1] > 0 THEN [o EXCEPT ![1] = @ - 1, ![2] = 255, ![3] = 255, ![4] = 255]
    ELSE o
Above(o) ==
    IF o[4] < 255 THEN [o EXCEPT ![4] = @ + 1]
    ELSE IF o[3] < 255 THEN [o EXCEPT ![3] = @ + 1, ![4] = 0]
    ELSE IF o[2] < 255 THEN [o EXCEPT ![2] = @ + 1, ![3] = 0, ![4] = 0]
    ELSE IF o[1] < 255 THEN [o EXCEPT ![1] = @ + 1, ![2] = 0, ![3] = 0, ![4] = 0]
    ELSE o
SampleOctets ==
    UNION {{FirstOf(n), LastOf(n), Below(FirstOf(n)), Above(LastOf(n))} :
              n \in RESERVED_IP_BLOCKS}
        \cup {<<127, 0, 0, 1>>, <<8, 8, 8, 8>>, <<1, 1, 1, 1>>, <<192, 0, 1, 255>>,
              <<100, 100, 100, 100>>, <<172, 20, 10, 5>>, <<198, 19, 0, 1>>}
SampleIps == {[v |-> 4, octets |-> o] : o \in SampleOctets} \cup {V6}

\* The state before any client is built.
HttpInit ==
    /\ ServiceIdle
    /\ ComponentsUnset

\* create_client is called with a configuration and a trust flag.
CreateClient(connect_to_reserved_ips, trusted) ==
    /\ client' = create_client(connect_to_reserved_ips, trusted)
    /\ connection' = NoConnection
    /\ UNCHANGED <<cache, clock, file, opened, emitted, readers, store>>
    /\ UNCHANGED service_vars

\* The client is about to connect to ip: its filter, if it has one, decides.
Connect(ip) ==
    /\ client.built
    /\ connection' = [tried |-> TRUE, ip |-> ip,
                      allowed |-> client.ip_filter => is_external_ip(ip),
                      blocked_ip |-> IF client.ip_filter THEN blocked_ip(ip) ELSE 0]
    /\ UNCHANGED <<cache, clock, file, opened, client, emitted, readers, store>>
    /\ UNCHANGED service_vars

HttpNext ==
    \/ \E c \in BOOLEAN, t \in BOOLEAN : CreateClient(c, t)
    \/ \E ip \in SampleIps : Connect(ip)

HttpSpec == HttpInit /\ [][HttpNext]_vars

(***************************************************************************)
(* C18.  A client filters addresses exactly when it is untrusted and       *)
(* connect_to_reserved_ips is false: it then refuses every IPv4 address    *)
(* inside one of the fifteen reserved blocks (127.0.0.1 for one) and       *)
(* allows every IPv4 address outside all of them; a trusted client, and    *)
(* any client with connect_to_reserved_ips = true, has no filter and       *)
(* connects to every address.                                              *)
(***************************************************************************)
\* The reserved ranges, written out as first and last address.
ReservedRanges ==
    {<< <<0, 0, 0, 0>>, <<0, 255, 255, 255>> >>,
     << <<10, 0, 0, 0>>, <<10, 255, 255, 255>> >>,
     << <<100, 64, 0, 0>>, <<100, 127, 255, 255>> >>,
     << <<127, 0, 0, 0>>, <<127, 255, 255, 255>> >>,
     << <<169, 254, 0, 0>>, <<169, 254, 255, 255>> >>,
     << <<172, 16, 0, 0>>, <<172, 31, 255, 255>> >>,
     << <<192, 0, 0, 0>>, <<192, 0, 0, 7>> >>,
     << <<192, 0, 2, 0>>, <<192, 0, 2, 255>> >>,
     << <<192, 88, 99, 0>>, <<192, 88, 99, 255>> >>,
     << <<192, 168, 0, 0>>, <<192, 168, 255, 255>> >>,
     << <<198, 18, 0, 0>>, <<198, 19, 255, 255>> >>,
     << <<198, 51, 100, 0>>, <<198, 51, 100, 255>> >>,
     << <<224, 0, 0, 0>>, <<239, 255, 255, 255>> >>,
     << <<240, 0, 0, 0>>, <<255, 255, 255, 255>> >>,
     << <<255, 255, 255, 255>>, <<255, 255, 255, 255>> >>}

\* a <= b for addresses, octet by octet from the left.
AddrLeq(a, b) ==
    \/ a[1] < b[1]
    \/ a[1] = b[1] /\ a[2] < b[2]
    \/ a[1] = b[1] /\ a[2] = b[2] /\ a[3] < b[3]
    \/ a[1] = b[1] /\ a[2] = b[2] /\ a[3] = b[3] /\ a[4] <= b[4]

InReservedRange(o) == \E r \in ReservedRanges : AddrLeq(r[1], o) /\ AddrLeq(o, r[2])

ReservedRefused ==
    /\ Cardinality(RESERVED_IP_BLOCKS) = 15
    /\ client.built =>
          (client.ip_filter <=> (~client.trusted /\ ~client.connect_to_reserved_ips))
    /\ (connection.tried /\ connection.ip.v = 4) =>
          (connection.allowed
              <=> (client.ip_filter => ~InReservedRange(connection.ip.octets)))

\* An untrusted client that must not connect to reserved addresses was refused
\* 127.0.0.1.
ReservedRefusedWitness ==
    /\ client.built /\ ~client.trusted /\ ~client.connect_to_reserved_ips
    /\ connection.tried
    /\ connection.ip = V4(127, 0, 0, 1)
    /\ ~connection.allowed

IntBits == 6

I64_MAX == 2 ^ (IntBits - 1) - 1
I64_MIN == 0 - 2 ^ (IntBits - 1)

\* The integer types the conversion is applied to: the u64 counts and the u128
\* milliseconds of record_task_metrics, and the signed types the blanket impl
\* also covers.
IntTypes == {"u64", "u128", "i64", "i128"}
ValuesOf(type) ==
    CASE type = "u64" -> 0 .. 2 ^ IntBits - 1
      [] type = "u128" -> 0 .. 2 ^ (2 * IntBits) - 1
      [] type = "i64" -> I64_MIN .. I64_MAX
      [] type = "i128" -> (0 - 2 ^ (2 * IntBits - 1)) .. (2 ^ (2 * IntBits - 1) - 1)

\* TryInto<i64>::try_into: Ok(value) when the value fits, else Err.
try_into(value) ==
    IF I64_MIN <= value /\ value <= I64_MAX
    THEN [ok |-> TRUE, value |-> value]
    ELSE [ok |-> FALSE, err |-> "TryFromIntError"]

\* Result::unwrap_or
result_unwrap_or(result, default) == IF result.ok THEN result.value ELSE default

\* A slip: the cast `self as i64`, which keeps the low bits.
to_wrapping_i64(value) ==
    ((value + 2 ^ (2 * IntBits) + 2 ^ (IntBits - 1)) % 2 ^ IntBits) - 2 ^ (IntBits - 1)

\* fn to_maxing_i64(self) -> i64 { self.try_into().unwrap_or(i64::MAX) }
to_maxing_i64(value) == result_unwrap_or(try_into(value), I64_MAX)

\* The field of the task metrics that is about to be recorded.
MetricsInit ==
    /\ ServiceIdle
    /\ cache = UnsetCache
    /\ clock = 0
    /\ file = NoFile
    /\ opened = NotOpened
    /\ client = NoClient
    /\ connection = NoConnection
    /\ readers = NoReaders
    /\ store = NoStore
    /\ \E type \in IntTypes : \E value \in ValuesOf(type) :
          emitted = [called |-> FALSE, type |-> type, value |-> value]

\* record_task_metrics converts the field for a counter.
RecordTaskMetric ==
    /\ ~emitted.called
    /\ emitted' = [called |-> TRUE, type |-> emitted.type, value |-> emitted.value,
                   counter |-> to_maxing_i64(emitted.value)]
    /\ UNCHANGED <<cache, clock, file, opened, client, connection, readers, store>>
    /\ UNCHANGED service_vars

MetricsNext == RecordTaskMetric

MetricsSpec == MetricsInit /\ [][MetricsNext]_vars

(***************************************************************************)
(* C19.  to_maxing_i64 returns its input unchanged for every value that    *)
(* is representable as an i64 and i64::MAX for every value above           *)
(* i64::MAX; the result is never a truncated or wrapped value (it is       *)
(* the input or i64::MAX).  Integer widths are bounded; the inputs         *)
(* include the u64 counts and the u128 millisecond durations.              *)
(***************************************************************************)
MaxingSaturates ==
    emitted.called =>
        /\ (I64_MIN <= emitted.value /\ emitted.value <= I64_MAX)
              => emitted.counter = emitted.value
        /\ emitted.value > I64_MAX => emitted.counter = I64_MAX
        /\ emitted.counter \in {emitted.value, I64_MAX}

\* A u128 duration above i64::MAX whose low bits are not those of i64::MAX was
\* recorded as i64::MAX.
MaxingSaturatesWitness ==
    /\ emitted.called
    /\ emitted.type = "u128"
    /\ emitted.value = 2 ^ IntBits + 1
    /\ emitted.counter = I64_MAX

(***************************************************************************)
(* The request service: the drop guard and the in-flight counter.          *)
(***************************************************************************)
\* The future of request id has ended: it ran to the end of its body, or it
\* was dropped and has released the sender and the token it captured.
WorkerEnded(id) ==
    \/ worker[id].pc = "done"
    \/ /\ worker[id].pc = "dropped"
       /\ worker[id].sender # "held"
       /\ worker[id].token = "dropped"

\* The future of request id was dropped before it sent its response.
DroppedUnsent(id) == worker[id].pc = "dropped" /\ worker[id].sender # "used"

(***************************************************************************)
(* C21.  No map entry outlives its worker: once a worker's future has      *)
(* ended, by running to the end of its body or by being dropped at any     *)
(* suspension point (before its first poll, while awaiting the job, or     *)
(* during the 90 s sleep), the computations map holds no entry for its     *)
(* request id.                                                             *)
(***************************************************************************)
NoEntryOutlivesWorker ==
    \A id \in RequestIds : WorkerEnded(id) => id \notin requests

\* One future was dropped before it sent anything and has released what it
\* held, another ran to its end: the map holds neither.
NoEntryOutlivesWorkerWitness ==
    /\ \E id \in RequestIds : WorkerEnded(id) /\ DroppedUnsent(id)
    /\ \E id \in RequestIds : worker[id].pc = "done"
    /\ requests = {}

(***************************************************************************)
(* C22.  In create_symbolication_request the in-flight counter is          *)
(* incremented before the new request's entry becomes visible in the       *)
(* computations map: no reachable state has a map entry for a request      *)
(* whose increment has not yet happened.                                   *)
(***************************************************************************)
IncrementBeforeEntry == \A id \in requests : id \in Incremented

(***************************************************************************)
(* C22, amended.  The entry is inserted first and the counter is           *)
(* incremented in the next step of the same call: a map entry whose        *)
(* increment has not happened belongs to a submission that is between the  *)
(* two steps and has not returned its id; every request whose id a         *)
(* submission has returned has been counted, and the counter is the number *)
(* of incremented requests whose decrement has not run.                    *)
(***************************************************************************)
EntryBeforeIncrement ==
    /\ \A id \in requests \ Incremented :
          \E t \in Threads : thread[t].pc = "fetch_add" /\ thread[t].request_id = id
    /\ \A id \in RequestIds : worker[id].pc # "none" => id \in Incremented
    /\ \A t \in Threads :
          thread[t].ret.kind = "ok" => thread[t].ret.request_id \in Incremented
    /\ current_requests = Cardinality(Incremented \cap NotDecremented)

\* A submission has inserted its entry and not yet incremented the counter,
\* while an earlier one has returned its id and is counted.
EntryBeforeIncrementWitness ==
    /\ \E t \in Threads :
          thread[t].pc = "fetch_add" /\ thread[t].request_id \in requests
    /\ \E t \in Threads : thread[t].ret.kind = "ok"
    /\ current_requests = 1

(***************************************************************************)
(* C23.  The drop guard's action (remove the map entry, emit a             *)
(* crashed-session marker) runs only when the spawned future is dropped by *)
(* cancellation or panic; it does not run for a worker that sends its      *)
(* response and runs to the end of its body.                               *)
(***************************************************************************)
GuardRunsOnlyOnDrop ==
    \A id \in RequestIds : worker[id].token = "dropped" => worker[id].pc = "dropped"

(***************************************************************************)
(* C23, amended.  The drop guard's action runs once for every worker       *)
(* whose future ends: when the future is dropped, and also by drop(token)  *)
(* at the end of the body of a worker that sent its response and slept,    *)
(* which is what removes the map entry after the retention time.  Its      *)
(* crashed-session marker takes effect only for a future dropped before    *)
(* it sent its response; the session of a worker that sent a response      *)
(* keeps the status it ended with at the send (Exited for a completed      *)
(* response, Abnormal for a timeout, Crashed for another error).           *)
(***************************************************************************)
GuardRunsAtEveryEnd ==
    \A id \in RequestIds :
        /\ worker[id].token = "dropped" =>
              /\ worker[id].pc \in {"done", "dropped"}
              /\ id \notin requests
              /\ worker[id].session # "Active"
        /\ worker[id].pc = "done" => worker[id].token = "dropped"
        /\ worker[id].sender = "used" =>
              worker[id].session = SessionStatusOf(Flatten(worker[id].outcome))
        /\ (worker[id].sender # "used" /\ worker[id].session # "Active") =>
              /\ worker[id].pc = "dropped"
              /\ worker[id].session = "Crashed"

\* A worker that completed its job ran to the end: its token was dropped, its
\* entry is gone and its session is still Exited; another was dropped before
\* it sent anything and its session is Crashed.
GuardRunsAtEveryEndWitness ==
    /\ \E id \in RequestIds :
          /\ worker[id].pc = "done"
          /\ worker[id].token = "dropped"
          /\ worker[id].outcome.kind = "ok"
          /\ worker[id].session = "Exited"
          /\ id \notin requests
    /\ \E id \in RequestIds : DroppedUnsent(id) /\ worker[id].session = "Crashed"

\* The admitted jobs that are still running: spawned or about to be, neither
\* fulfilled nor dropped.
Running ==
    {id \in AdmittedIds :
        worker[id].pc \in {"none", "spawned", "running"}}

\* No submission is in progress and no worker is between its send and its
\* decrement.
Settled ==
    /\ \A t \in Threads : thread[t].pc = "idle"
    /\ \A id \in RequestIds : worker[id].pc # "sent"

(***************************************************************************)
(* C24.  The in-flight counter equals the number of admitted jobs that are *)
(* still running (neither fulfilled nor dropped), taken when no submission *)
(* and no decrement is under way: after a job's future panics or is        *)
(* dropped before sending its response the counter is decremented for it,  *)
(* so whenever no job is running the counter is 0 and a crashed job never  *)
(* permanently consumes an admission slot.                                 *)
(***************************************************************************)
CounterIsRunningJobs ==
    Settled => current_requests = Cardinality(Running)

(***************************************************************************)
(* C25.  A submission rejected with MaxRequestsError changes no service    *)
(* state: neither of its steps (the start of the call, the comparison that *)
(* rejects it) inserts an entry into the computations map, changes the     *)
(* in-flight counter or spawns a job on the compute executor.              *)
(***************************************************************************)
RejectionChangesNothing ==
    [][\A t \in Threads :
          ((Decides(t) /\ RejectedNow(t))
              \/ (thread[t].pc = "idle" /\ thread'[t].pc = "check"))
            => UNCHANGED <<requests, current_requests, worker, channel, next_id,
                           max_concurrent_requests>>]_vars

\* A submission was rejected at the limit: the counter and the map still hold
\* exactly the admitted requests, and no further job was spawned.
RejectionChangesNothingWitness ==
    /\ max_concurrent_requests.some
    /\ \E t \in Threads : thread[t].ret = MaxRequestsError
    /\ \A t \in Threads : thread[t].pc = "idle"
    /\ current_requests = max_concurrent_requests.val
    /\ Cardinality(requests) = max_concurrent_requests.val
    /\ Cardinality({id \in RequestIds : worker[id].pc # "none"})
          = max_concurrent_requests.val

(***************************************************************************)
(* Concurrent readers of one positive cache file: open_cachefile, one step *)
(* per access to the file (check_expiry reads the metadata, the touch      *)
(* writes the mtime).  The file system fails no operation here: failures   *)
(* are the subject of the cache model above.                               *)
(***************************************************************************)
Readers == {"r1", "r2"}

\* An open_cachefile call: where it is and what it returned last.
IdleReader == [pc |-> "idle", ret |-> NoRet]

\* The file is a positive entry written at some time; no reader is inside a
\* call; the mtime was never bumped.
ReadersInit ==
    /\ ServiceIdle
    /\ clock \in StartTimes
    /\ cache \in [cache_dir : {Some("caches")},
                  start_time : {clock},
                  cache_config : CacheConfigs]
    /\ file \in [exists : {TRUE}, entry : {EntryOk}, mtime : FileTimes]
    /\ opened = NotOpened
    /\ client = NoClient
    /\ connection = NoConnection
    /\ emitted = NotEmitted
    /\ store = NoStore
    /\ readers = [used |-> TRUE, call |-> [r \in Readers |-> IdleReader],
                  last_bump |-> None, gap |-> None]

\* Line 185: self.check_expiry(path)?, and line 187: should_touch.  A call that
\* has nothing to touch returns here.
ReaderCheck(r) ==
    /\ readers.call[r].pc = "idle"
    /\ LET checked == check_expiry(cache, file, clock, IoFine) IN
       readers' = [readers EXCEPT !.call[r] =
                     IF should_touch(checked)
                     THEN [pc |-> "touch", ret |-> NoRet]
                     ELSE [pc |-> "idle", ret |-> catch_not_found(checked)]]
    /\ UNCHANGED <<cache, clock, file, opened, client, connection, emitted, store>>
    /\ UNCHANGED service_vars

\* Lines 189-191: filetime::set_file_mtime(path, FileTime::now()), and the call
\* returns TouchIn(TOUCH_EVERY).
ReaderTouch(r) ==
    /\ readers.call[r].pc = "touch"
    /\ file' = [file EXCEPT !.mtime = clock]
    /\ readers' = [readers EXCEPT
          !.call[r] = [pc |-> "idle",
                       ret |-> catch_not_found(ExpiryOk(file.entry, TouchIn(TOUCH_EVERY)))],
          !.last_bump = Some(clock),
          !.gap = IF readers.last_bump.some
                  THEN Some(clock - readers.last_bump.val) ELSE None]
    /\ UNCHANGED <<cache, clock, opened, client, connection, emitted, store>>
    /\ UNCHANGED service_vars

ReadersNext ==
    \/ TickClock
    \/ \E r \in Readers : ReaderCheck(r)
    \/ \E r \in Readers : ReaderTouch(r)

ReadersSpec == ReadersInit /\ [][ReadersNext]_vars

(***************************************************************************)
(* C26.  Over any number and interleaving of open_cachefile calls on the   *)
(* same positive cache file, concurrent readers included, the file's       *)
(* mtime is bumped at most once per TOUCH_EVERY (3600 s): two successive   *)
(* bumps are never less than TOUCH_EVERY apart.                            *)
(***************************************************************************)
BumpsDebounced ==
    (readers.used /\ readers.gap.some) => readers.gap.val >= TOUCH_EVERY

(***************************************************************************)
(* The directories of a cache: Cache::from_config and Cache::tempfile, one *)
(* step per file-system operation, with the cleanup removing tmp_dir in    *)
(* between.                                                                *)
(***************************************************************************)
MaxRemovals == 3

\* const MAX_RETRIES: usize = 2;
MAX_RETRIES == 2

\* The arguments of from_config.
DirArgs == [cache_dir : {None, Some("caches/objects")},
            tmp_dir : {None, Some("caches/tmp")}]

\* A tempfile call: where it is, its retries counter, how often the cleanup
\* removed tmp_dir during the call, whether an operation failed for another
\* reason, and what it returned.
NoTempfile == [pc |-> "idle", retries |-> 0, removals |-> 0, other |-> FALSE,
               ret |-> NoRet]
TempOk == [kind |-> "ok"]
TempErr == [kind |-> "err"]

\* Before from_config: its arguments, and which directories are on disk.
StoreInit ==
    /\ ServiceIdle
    /\ cache = UnsetCache
    /\ clock = 0
    /\ file = NoFile
    /\ opened = NotOpened
    /\ client = NoClient
    /\ connection = NoConnection
    /\ emitted = NotEmitted
    /\ readers = NoReaders
    /\ \E args \in DirArgs, c \in BOOLEAN, t \in BOOLEAN :
          store = [used |-> TRUE, args |-> args,
                   cache_dir_exists |-> c, tmp_dir_exists |-> t,
                   built |-> "no", call |-> NoTempfile]

StoreUnchanged ==
    /\ UNCHANGED <<cache, clock, file, opened, client, connection, emitted, readers>>
    /\ UNCHANGED service_vars

\* pub fn from_config: create_dir_all(cache_dir)? when it is set, then the Cache
\* with the directories as given.
FromConfig(io_ok) ==
    /\ store.built = "no"
    /\ ~store.args.cache_dir.some => io_ok
    /\ store' = [store EXCEPT
          !.built = IF io_ok THEN "ok" ELSE "err",
          !.cache_dir_exists = IF store.args.cache_dir.some /\ io_ok THEN TRUE ELSE @]
    /\ StoreUnchanged

\* A slip: the error is returned one attempt early.
retries_exhausted_early(retries) == retries >= MAX_RETRIES

\* if retries > MAX_RETRIES { return Err(e); }
retries_exhausted(retries) == retries > MAX_RETRIES

\* pub fn tempfile: with no tmp_dir, NamedTempFile::new() in the system's
\* directory; else the loop starts.
TempfileBegin(io_ok) ==
    /\ store.built = "ok"
    /\ store.call.pc = "idle"
    /\ store.args.tmp_dir.some => io_ok
    /\ store' = [store EXCEPT !.call =
          IF store.args.tmp_dir.some
          THEN [NoTempfile EXCEPT !.pc = "mkdir"]
          ELSE [NoTempfile EXCEPT !.ret = IF io_ok THEN TempOk ELSE TempErr,
                                  !.other = ~io_ok]]
    /\ StoreUnchanged

\* What a failed operation of the loop leads to: the error, or the next attempt.
AfterFailure(call, other) ==
    IF retries_exhausted(call.retries)
    THEN [call EXCEPT !.pc = "idle", !.ret = TempErr, !.other = @ \/ other]
    ELSE [call EXCEPT !.pc = "mkdir", !.other = @ \/ other]

\* retries += 1; std::fs::create_dir_all(path)
TempfileMkdir(io_ok) ==
    /\ store.call.pc = "mkdir"
    /\ LET call == [store.call EXCEPT !.retries = @ + 1] IN
       store' = IF io_ok
                THEN [store EXCEPT !.call = [call EXCEPT !.pc = "create"],
                                   !.tmp_dir_exists = TRUE]
                ELSE [store EXCEPT !.call = AfterFailure(call, TRUE)]
    /\ StoreUnchanged

\* tempfile::Builder::new().prefix("tmp").tempfile_in(path): fails when the
\* directory is gone, or for another reason.
TempfileCreate(io_ok) ==
    /\ store.call.pc = "create"
    /\ store' = IF io_ok /\ store.tmp_dir_exists
                THEN [store EXCEPT !.call = [@ EXCEPT !.pc = "idle", !.ret = TempOk]]
                ELSE [store EXCEPT !.call = AfterFailure(@, ~io_ok)]
    /\ StoreUnchanged

\* The cleanup removes tmp_dir.
CleanupRemoves ==
    /\ store.built = "ok"
    /\ store.tmp_dir_exists
    /\ store.call.removals < MaxRemovals
    /\ store' = [store EXCEPT
          !.tmp_dir_exists = FALSE,
          !.call.removals = IF store.call.pc = "idle" THEN @ ELSE @ + 1]
    /\ StoreUnchanged

StoreNext ==
    \/ \E io_ok \in BOOLEAN : FromConfig(io_ok)
    \/ \E io_ok \in BOOLEAN : TempfileBegin(io_ok)
    \/ \E io_ok \in BOOLEAN : TempfileMkdir(io_ok)
    \/ \E io_ok \in BOOLEAN : TempfileCreate(io_ok)
    \/ CleanupRemoves

StoreSpec == StoreInit /\ [][StoreNext]_vars

\* A tempfile call on an enabled cache has returned.
TempfileReturned ==
    /\ store.used
    /\ store.args.tmp_dir.some
    /\ store.call.pc = "idle"
    /\ store.call.ret # NoRet

(***************************************************************************)
(* C27.  tempfile() on an enabled cache makes at most three attempts (the  *)
(* first plus two retries); each attempt re-creates tmp_dir and then       *)
(* creates the temp file; it returns the first temp file created and       *)
(* returns an error only when all three attempts failed, so it succeeds    *)
(* whenever the cleanup removes tmp_dir at most twice during the call and  *)
(* no other error occurs.                                                  *)
(***************************************************************************)
TempfileRetries ==
    (store.used /\ store.args.tmp_dir.some) =>
        /\ store.call.retries <= MAX_RETRIES + 1
        /\ store.call.pc = "create" => store.call.retries >= 1
        /\ (TempfileReturned /\ store.call.ret = TempErr) =>
              store.call.retries = MAX_RETRIES + 1
        /\ (TempfileReturned /\ store.call.ret = TempOk) => store.call.retries >= 1
        /\ (TempfileReturned /\ store.call.removals <= 2 /\ ~store.call.other) =>
              store.call.ret = TempOk

\* The cleanup removed tmp_dir twice during the call, nothing else failed, and
\* the third attempt created the file.
TempfileRetriesWitness ==
    /\ TempfileReturned
    /\ store.call.removals = 2
    /\ ~store.call.other
    /\ store.call.retries = 3
    /\ store.call.ret = TempOk

(***************************************************************************)
(* C30.  Every Cache value that Cache::from_config can return satisfies:   *)
(* cache_dir is absent if and only if tmp_dir is absent; and when          *)
(* cache_dir is set the directory exists after construction.               *)
(***************************************************************************)
DirsAbsentTogether ==
    (store.used /\ store.built = "ok") =>
        /\ store.args.cache_dir.some <=> store.args.tmp_dir.some
        /\ store.args.cache_dir.some => store.cache_dir_exists

(***************************************************************************)
(* Fresh entries: ExpirationTime::for_fresh_status next to check_expiry    *)
(* and open_cachefile.                                                     *)
(***************************************************************************)
\* A slip: an unconfigured duration is taken for zero.
for_fresh_status_or_zero(c, entry) ==
    LET strategy == expiration_strategy(c.cache_config, entry) IN
    CASE strategy = "None" -> TouchIn(3600)
      [] strategy = "Negative" -> RefreshIn(unwrap_or(c.cache_config.retry_misses_after, 0))
      [] strategy = "Malformed" ->
            RefreshIn(unwrap_or(c.cache_config.retry_malformed_after, 0))

\* pub fn for_fresh_status(cache: &Cache, entry: &CacheEntry<..>) -> ExpirationTime
for_fresh_status(c, entry) ==
    LET strategy == expiration_strategy(c.cache_config, entry) IN
    CASE strategy = "None" -> TouchIn(3600)
      [] strategy = "Negative" ->
            RefreshIn(unwrap_or(c.cache_config.retry_misses_after, DURATION_MAX))
      [] strategy = "Malformed" ->
            RefreshIn(unwrap_or(c.cache_config.retry_malformed_after, DURATION_MAX))

\* An enabled cache, as in the cache model.
FreshInit ==
    /\ CacheInit
    /\ cache.cache_dir.some

\* for_fresh_status is called for an entry that was just computed.
ForFreshStatus(entry) ==
    /\ opened' = [call |-> "for_fresh_status", at |-> clock, mtime |-> clock,
                  io |-> IoFine, entry |-> entry,
                  ret |-> for_fresh_status(cache, entry),
                  last_hit |-> opened.last_hit]
    /\ UNCHANGED <<cache, clock, file, client, connection, emitted, readers, store>>
    /\ UNCHANGED service_vars

FreshNext ==
    \/ CacheNext
    \/ \E entry \in CacheEntries : ForFreshStatus(entry)

FreshSpec == FreshInit /\ [][FreshNext]_vars

\* What check_expiry gives for the entry written now: mtime_elapsed = 0 and
\* mtime >= start_time.
ExpirationWhenFresh == Expiration(cache, opened.entry, opened.at, opened.at)

\* The duration that decides for the entry of the last for_fresh_status call.
FreshRetry ==
    LET strategy == expiration_strategy(cache.cache_config, opened.entry) IN
    CASE strategy = "None" -> None
      [] strategy = "Negative" -> cache.cache_config.retry_misses_after
      [] strategy = "Malformed" -> cache.cache_config.retry_malformed_after

(***************************************************************************)
(* C28.  for_fresh_status(cache, entry) equals the outcome check_expiry    *)
(* would give for the same entry and config with mtime_elapsed = 0 and     *)
(* mtime >= start_time, for every entry variant and every config value     *)
(* (including retry_misses_after = 0 and retry_malformed_after = 0).       *)
(***************************************************************************)
FreshIsCheckExpiryAtZero ==
    Called("for_fresh_status") =>
        ExpirationWhenFresh = ExpiryOk(opened.entry, opened.ret)

(***************************************************************************)
(* C28, amended.  for_fresh_status gives TouchIn(3600) for an entry with   *)
(* the None strategy, RefreshIn(retry_misses_after) for the Negative and   *)
(* RefreshIn(retry_malformed_after) for the Malformed strategy, an         *)
(* unconfigured duration being Duration::MAX.  This is what check_expiry   *)
(* gives with mtime_elapsed = 0 and mtime >= start_time, except when the   *)
(* deciding duration is configured as 0: check_expiry then reports the     *)
(* entry expired while for_fresh_status returns RefreshIn(0).              *)
(***************************************************************************)
FreshIsCheckExpiryUnlessZero ==
    Called("for_fresh_status") =>
        /\ opened.ret =
              IF ~FreshRetry.some
              THEN (IF expiration_strategy(cache.cache_config, opened.entry) = "None"
                    THEN TouchIn(TOUCH_EVERY) ELSE RefreshIn(DURATION_MAX))
              ELSE (IF expiration_strategy(cache.cache_config, opened.entry) = "None"
                    THEN TouchIn(TOUCH_EVERY) ELSE RefreshIn(FreshRetry.val))
        /\ IF FreshRetry = Some(0)
           THEN ExpirationWhenFresh = IoErr("NotFound") /\ opened.ret = RefreshIn(0)
           ELSE ExpirationWhenFresh = ExpiryOk(opened.entry, opened.ret)

\* A fresh negative entry of a cache with no retry_misses_after is good for
\* Duration::MAX.
FreshIsCheckExpiryUnlessZeroWitness ==
    /\ Called("for_fresh_status")
    /\ opened.entry = EntryErr("NotFound")
    /\ ~cache.cache_config.retry_misses_after.some
    /\ opened.ret = RefreshIn(DURATION_MAX)

\* The last call returned an expiration time for an entry: which entry, and
\* which time.
Gave ==
    CASE opened.call = "check_expiry" -> opened.ret.ok
      [] opened.call = "open_cachefile" -> opened.ret.ok /\ opened.ret.value.some
      [] opened.call = "for_fresh_status" -> TRUE
      [] OTHER -> FALSE
GivenEntry ==
    CASE opened.call = "check_expiry" -> opened.ret.entry
      [] opened.call = "open_cachefile" -> opened.ret.value.val.entry
      [] opened.call = "for_fresh_status" -> opened.entry
GivenTime ==
    CASE opened.call = "check_expiry" -> opened.ret.expiration
      [] opened.call = "open_cachefile" -> opened.ret.value.val.expiration
      [] opened.call = "for_fresh_status" -> opened.ret

(***************************************************************************)
(* C29.  An ExpirationTime produced by check_expiry, open_cachefile or     *)
(* for_fresh_status is TouchIn only when the entry is positive (Ok) and    *)
(* RefreshIn whenever the entry is any error variant, for every cache      *)
(* kind and every CacheError variant.                                      *)
(***************************************************************************)
TouchInOnlyForOk ==
    Gave => (GivenTime.variant = "TouchIn" <=> GivenEntry.ok)

(***************************************************************************)
(* C29, amended.  An ExpirationTime produced by check_expiry,              *)
(* open_cachefile or for_fresh_status is TouchIn exactly when the entry    *)
(* has the None strategy: a positive entry, or an error other than         *)
(* NotFound and Malformed in a Diagnostics cache; it is RefreshIn for      *)
(* NotFound and Malformed entries and for the other errors in Downloaded   *)
(* and Derived caches.                                                     *)
(***************************************************************************)
TouchInForNoneStrategy ==
    Gave =>
        /\ GivenTime.variant \in {"TouchIn", "RefreshIn"}
        /\ GivenTime.variant = "TouchIn" <=>
              \/ GivenEntry.ok
              \/ /\ GivenEntry.error \in OtherCacheErrors
                 /\ cache.cache_config.kind = "Diagnostics"

\* open_cachefile returned a time to touch for an error entry of a Diagnostics
\* cache.
TouchInForNoneStrategyWitness ==
    /\ opened.call = "open_cachefile"
    /\ Gave
    /\ cache.cache_config.kind = "Diagnostics"
    /\ ~GivenEntry.ok
    /\ GivenTime.variant = "TouchIn"

(***************************************************************************)
(* One open_cachefile call racing against writers of the same path, one    *)
(* step per access to the file: path.metadata() (line 113),                *)
(* ByteView::open(path) (line 116), filetime::set_file_mtime(path, now)    *)
(* (line 189).  Each access resolves the path anew.  A writer replaces the *)
(* file by an atomic rename; no operation fails here.                      *)
(***************************************************************************)
\* The number of replacements writers make.
MaxWrites == 2

\* No call yet: no metadata read, no file opened, no file touched.
IdleOpen ==
    [call |-> "open_cachefile", pc |-> "idle", metadata |-> None, bv |-> None,
     touched |-> None, ret |-> NoRet]

\* The path holds version 0 of the file, left by an earlier writer.
RaceInit ==
    /\ ServiceIdle
    /\ clock \in StartTimes
    /\ cache \in [cache_dir : {Some("caches")},
                  start_time : {clock},
                  cache_config : CacheConfigs]
    /\ file \in [exists : {TRUE}, entry : CacheEntries, mtime : FileTimes,
                 version : {0}]
    /\ opened = IdleOpen
    /\ client = NoClient
    /\ connection = NoConnection
    /\ emitted = NotEmitted
    /\ readers = NoReaders
    /\ store = NoStore

\* A writer renames a finished temporary file onto the path: the path now
\* names a new file, with its own content and the mtime of its writing.
WriterRename(entry) ==
    /\ file.version < MaxWrites
    /\ file' = [exists |-> TRUE, entry |-> entry, mtime |-> clock,
                version |-> file.version + 1]
    /\ UNCHANGED <<cache, clock, opened, client, connection, emitted, readers, store>>
    /\ UNCHANGED service_vars

\* Line 113: let metadata = path.metadata()?
OpenMetadata ==
    /\ opened.pc = "idle"
    /\ opened' = [IdleOpen EXCEPT
          !.pc = "open",
          !.metadata = Some([mtime |-> file.mtime, version |-> file.version])]
    /\ UNCHANGED <<cache, clock, file, client, connection, emitted, readers, store>>
    /\ UNCHANGED service_vars

\* Lines 116-168 and 185-187: ByteView::open(path), then the expiration of the
\* entry decoded from these bytes at the mtime of the metadata read before; a
\* call that has nothing to touch returns here.
OpenByteView ==
    /\ opened.pc = "open"
    /\ LET seen == [file EXCEPT !.mtime = opened.metadata.val.mtime]
           checked == check_expiry(cache, seen, clock, IoFine) IN
       opened' = [opened EXCEPT
          !.bv = Some([entry |-> file.entry, version |-> file.version]),
          !.pc = IF should_touch(checked) THEN "touch" ELSE "idle",
          !.ret = IF should_touch(checked) THEN NoRet ELSE catch_not_found(checked)]
    /\ UNCHANGED <<cache, clock, file, client, connection, emitted, readers, store>>
    /\ UNCHANGED service_vars

\* Lines 189-194: filetime::set_file_mtime(path, FileTime::now()) on the file
\* the path names now, and the call returns the entry it opened with
\* TouchIn(TOUCH_EVERY).
OpenTouch ==
    /\ opened.pc = "touch"
    /\ file' = [file EXCEPT !.mtime = clock]
    /\ opened' = [opened EXCEPT
          !.pc = "idle",
          !.touched = Some([entry |-> file.entry, version |-> file.version]),
          !.ret = catch_not_found(ExpiryOk(opened.bv.val.entry, TouchIn(TOUCH_EVERY)))]
    /\ UNCHANGED <<cache, clock, client, connection, emitted, readers, store>>
    /\ UNCHANGED service_vars

RaceNext ==
    \/ TickClock
    \/ \E entry \in CacheEntries : WriterRename(entry)
    \/ OpenMetadata
    \/ OpenByteView
    \/ OpenTouch

RaceSpec == RaceInit /\ [][RaceNext]_vars

(***************************************************************************)
(* C32.  When a writer replaces the file concurrently with open_cachefile, *)
(* the entry and the expiry decision of the call come from one version of  *)
(* the file: the mtime that decides hit, miss or touch is the mtime of the *)
(* version whose content was opened.                                       *)
(***************************************************************************)
OneVersionDecides ==
    (opened.call = "open_cachefile" /\ opened.bv.some) =>
        opened.bv.val.version = opened.metadata.val.version

(***************************************************************************)
(* C33.  The only effect of open_cachefile on the file system is an mtime  *)
(* bump of a file whose current content is a positive entry: the file is   *)
(* never removed, and the mtime of a file that holds a negative or         *)
(* malformed entry is never changed, also when a writer replaces the file  *)
(* between the expiry decision and the touch.                              *)
(***************************************************************************)
OnlyPositiveBumped ==
    opened.call = "open_cachefile" =>
        /\ file.exists
        /\ opened.touched.some => opened.touched.val.entry = EntryOk

(***************************************************************************)
(* C34.  The ExpirationTime that open_cachefile returns satisfies          *)
(* was_touched() if and only if the call changed the mtime of the file: a  *)
(* hit on a positive entry of age 0, or with an mtime in the future, is    *)
(* not touched and does not report was_touched().                          *)
(***************************************************************************)
\* pub fn was_touched(&self) -> bool
was_touched(expiration) == expiration = TouchIn(TOUCH_EVERY)

TouchedIffBumped ==
    (Called("open_cachefile") /\ opened.ret.ok /\ opened.ret.value.some) =>
        (was_touched(opened.ret.value.val.expiration)
            <=> file.mtime # opened.mtime)

(***************************************************************************)
(* The metrics sink (metrics.rs): the global METRICS_CLIENT, the           *)
(* thread-local CURRENT_CLIENT of every thread, set_client and the         *)
(* emissions of the metric! macro through with_client.                     *)
(***************************************************************************)
\* The number of set_client calls.
MaxSetClients == 2

\* The threads that emit metrics.
MetricThreads == {"m1", "m2", "m3"}

\* struct MetricsClient: the n-th client installed and the tags sent with every
\* metric.
MetricsClient(n) == [statsd_client |-> n, tags |-> {"process"}]

\* A thread-local that its thread has not accessed yet.
Uninitialized == [init |-> FALSE]
Initialized(value) == [init |-> TRUE, value |-> value]

\* thread_local! { static CURRENT_CLIENT = METRICS_CLIENT.read().clone() }: the
\* initialiser runs at the first access of the thread, the value then stays.
CURRENT_CLIENT_with(current, global) ==
    IF current.init THEN current ELSE Initialized(global)

\* fn send_metric(&self, metric): every tag of the client is added, then the
\* metric is sent through the client.
send_metric(c, metric_tags) ==
    [through |-> c.statsd_client, tags |-> metric_tags \cup c.tags]

\* pub fn with_client(f): f(client) if the thread's CURRENT_CLIENT holds a
\* client, R::default() (nothing sent) otherwise.
with_client(current, metric_tags) ==
    IF current.value.some THEN Some(send_metric(current.value.val, metric_tags))
    ELSE None

\* No client installed, no thread has emitted.
SinkInit ==
    /\ ServiceIdle
    /\ cache = UnsetCache
    /\ clock = 0
    /\ file = NoFile
    /\ opened = NotOpened
    /\ client = NoClient
    /\ connection = NoConnection
    /\ readers = NoReaders
    /\ store = NoStore
    /\ emitted = [called |-> FALSE,
                  METRICS_CLIENT |-> None,
                  CURRENT_CLIENT |-> [t \in MetricThreads |-> Uninitialized],
                  set_clients |-> 0]

\* pub fn set_client(client): *METRICS_CLIENT.write() = Some(Arc::new(client))
set_client(n) ==
    /\ n = emitted.set_clients + 1
    /\ n <= MaxSetClients
    /\ emitted' = [emitted EXCEPT !.METRICS_CLIENT = Some(MetricsClient(n)),
                                  !.set_clients = n]
    /\ UNCHANGED <<cache, clock, file, opened, client, connection, readers, store>>
    /\ UNCHANGED service_vars

\* metric!(..) on thread t: with_client on the thread's CURRENT_CLIENT.  The
\* emission is recorded with the sink installed when it was made.
Emit(t, metric_tags) ==
    /\ LET current == CURRENT_CLIENT_with(emitted.CURRENT_CLIENT[t],
                                          emitted.METRICS_CLIENT) IN
       emitted' = [called |-> TRUE,
                   METRICS_CLIENT |-> emitted.METRICS_CLIENT,
                   CURRENT_CLIENT |-> [emitted.CURRENT_CLIENT EXCEPT ![t] = current],
                   set_clients |-> emitted.set_clients,
                   thread |-> t,
                   first |-> ~emitted.CURRENT_CLIENT[t].init,
                   installed |-> emitted.METRICS_CLIENT,
                   metric_tags |-> metric_tags,
                   sent |-> with_client(current, metric_tags)]
    /\ UNCHANGED <<cache, clock, file, opened, client, connection, readers, store>>
    /\ UNCHANGED service_vars

SinkNext ==
    \/ \E n \in 1..MaxSetClients : set_client(n)
    \/ \E t \in MetricThreads, metric_tags \in {{}, {"task"}} : Emit(t, metric_tags)

SinkSpec == SinkInit /\ [][SinkNext]_vars

(***************************************************************************)
(* C35.  An emission is a no-op while no sink is installed, and once       *)
(* set_client has returned every later emission on every thread is sent    *)
(* through the installed client with the per-process tags added: also on a *)
(* thread that emitted before the sink was installed, and after a second   *)
(* set_client call replaced the client.                                    *)
(***************************************************************************)
EmissionsFollowSink ==
    emitted.called =>
        IF emitted.installed.some
        THEN emitted.sent =
                Some([through |-> emitted.installed.val.statsd_client,
                      tags |-> emitted.metric_tags \cup emitted.installed.val.tags])
        ELSE emitted.sent = None

====
